---- MODULE Spec2Model ----
(***************************************************************************)
(* Model of the analysis engine of lokup (features/analyze, domain).       *)
(*                                                                         *)
(* The variables are the local variables of Service.Analyze.  The pure     *)
(* functions of the engine are operators; each is exercised by a small     *)
(* specification that draws its arguments in Init and applies it in an     *)
(* action, the way the unit tests of the package call it.  The Analyze     *)
(* specification runs Service.Analyze itself, statement by statement, on   *)
(* a collaborator with fixed answers.                                      *)
(*                                                                         *)
(* Conventions                                                             *)
(*   - a Go pointer or nil-able value is a sequence of length 0 or 1;      *)
(*   - a Go map is a TLA+ function over its key set;                       *)
(*   - time.Time is an integer number of hours;                            *)
(*   - a float64 is the exact rational <<num, den>> (den > 0), compared by *)
(*     cross multiplication;                                               *)
(*   - the Japanese message texts are replaced by ASCII tags, one tag per  *)
(*     distinct text.                                                      *)
(***************************************************************************)
EXTENDS Integers, Sequences, FiniteSets, TLC

VARIABLES
    pc,              \* position in the function under way
    risks,           \* Analyze: risks
    categoryScores,  \* Analyze: categoryScores
    overallScore,    \* Analyze: overallScore
    argType,         \* argument: a RiskType
    argCat,          \* argument: a Category
    argScore,        \* argument: the int handed to NewScore
    argWorst,        \* argument: worstRisk, nil or one risk
    retCategory,     \* result of RiskType.Category
    retDiagnosis,    \* result of generateDiagnosis
    period,          \* Analyze: input.Period
    commits,         \* Analyze: commits
    allIssues,       \* Analyze: allIssues
    releases,        \* Analyze: releases
    deployFreq,      \* calculateMetrics: deployFreq
    deployRating,    \* calculateMetrics: deployRating
    cfr,             \* calculateMetrics: cfr
    cfrRating,       \* calculateMetrics: cfrRating
    repo,            \* Service.repo: the answers of the collaborator
    contributors,    \* Analyze: contributors
    closedPRs,       \* Analyze: closedPRs
    openPRs,         \* Analyze: openPRs
    openIssues,      \* Analyze: openIssues
    files,           \* Analyze: files
    dependencies,    \* Analyze: dependencies
    prevCommits,     \* Analyze: prevCommits
    prevIssues,      \* Analyze: prevIssues
    prDetails,       \* Analyze: prDetails
    largeFiles,      \* Analyze: largeFiles
    outdatedDeps,    \* Analyze: outdatedDeps
    metrics,         \* Analyze: metrics
    result,          \* Analyze: the returned *AnalysisResult, nil or one
    err,             \* Analyze: the returned error, nil or one
    calls,           \* the calls the collaborator has received, in order
    now,             \* time.Now()
    run,             \* caller: the number of the call of Analyze under way
    lastResult,      \* caller: the result of the previous call
    lastErr,         \* caller: the error of the previous call
    handled,         \* Handler.Handle: the returned result and error
    avgLeadTime,     \* calculateMetrics: avgLeadTime
    prBreakdown,     \* calculateMetrics: prb
    issueStats,      \* calculateMetrics: is
    mttr,            \* calculateMetrics: mttr
    mttrRating,      \* calculateMetrics: mttrRating
    argCurrent,      \* argument: current of buildTrendDelta
    argPrevious,     \* argument: previous of buildTrendDelta
    retTrend,        \* result of buildTrendDelta, nil or one
    retTrends        \* result of calculateTrends

varsScore == <<risks, categoryScores, overallScore>>
varsLookup ==
    <<argType, argCat, argScore, argWorst, retCategory, retDiagnosis>>

varsDora ==
    <<period, commits, allIssues, releases, deployFreq, deployRating, cfr,
      cfrRating>>

varsAnalyze ==
    <<repo, contributors, closedPRs, openPRs, openIssues, files, dependencies,
      prevCommits, prevIssues, prDetails, largeFiles, outdatedDeps, metrics,
      result, err, calls, now, run, lastResult, lastErr, handled>>

varsMetrics ==
    <<avgLeadTime, prBreakdown, issueStats, mttr, mttrRating,
      argCurrent, argPrevious, retTrend, retTrends>>

vars == <<pc, varsScore, varsLookup, varsDora, varsAnalyze, varsMetrics>>

(***************************************************************************)
(* domain: categories, risk types, severities                              *)
(***************************************************************************)
CategoryVelocity == "velocity"
CategoryQuality == "quality"
CategoryTechDebt == "tech_debt"
CategoryHealth == "health"

RiskTypeChangeConcentration == "change_concentration"
RiskTypeLargeFile == "large_file"
RiskTypeOwnership == "ownership"
RiskTypeOutdatedDeps == "outdated_deps"
RiskTypeLateNight == "late_night"
RiskTypeSlowLeadTime == "slow_lead_time"
RiskTypeSlowReview == "slow_review"
RiskTypeLargePR == "large_pr"
RiskTypeLowIssueClose == "low_issue_close"
RiskTypeBugFixHigh == "bug_fix_high"
RiskTypeLowDeployFreq == "low_deploy_freq"
RiskTypeHighChangeFailure == "high_change_failure"
RiskTypeSlowRecovery == "slow_recovery"
RiskTypeLowFeatureInvestment == "low_feature_investment"

\* The 14 values of the RiskType const block.
RiskTypes ==
    { RiskTypeChangeConcentration, RiskTypeLargeFile, RiskTypeOwnership,
      RiskTypeOutdatedDeps, RiskTypeLateNight, RiskTypeSlowLeadTime,
      RiskTypeSlowReview, RiskTypeLargePR, RiskTypeLowIssueClose,
      RiskTypeBugFixHigh, RiskTypeLowDeployFreq, RiskTypeHighChangeFailure,
      RiskTypeSlowRecovery, RiskTypeLowFeatureInvestment }

SeverityLow == 0
SeverityMedium == 1
SeverityHigh == 2

\* Mutant of Category: low_feature_investment falls through to the default.
Category_featureInvestmentDefault(r) ==
    CASE r \in { RiskTypeSlowLeadTime, RiskTypeSlowReview,
                 RiskTypeLowDeployFreq, RiskTypeSlowRecovery }
           -> CategoryVelocity
      [] r \in { RiskTypeChangeConcentration, RiskTypeLargePR,
                 RiskTypeLowIssueClose, RiskTypeBugFixHigh,
                 RiskTypeHighChangeFailure }
           -> CategoryQuality
      [] r \in { RiskTypeLargeFile, RiskTypeOutdatedDeps }
           -> CategoryTechDebt
      [] r \in { RiskTypeLateNight, RiskTypeOwnership }
           -> CategoryHealth
      [] OTHER -> CategoryQuality

\* RiskType.Category: the switch, with its default branch.
Category(r) ==
    CASE r \in { RiskTypeSlowLeadTime, RiskTypeSlowReview,
                 RiskTypeLowDeployFreq, RiskTypeSlowRecovery }
           -> CategoryVelocity
      [] r \in { RiskTypeChangeConcentration, RiskTypeLargePR,
                 RiskTypeLowIssueClose, RiskTypeBugFixHigh,
                 RiskTypeHighChangeFailure }
           -> CategoryQuality
      [] r \in { RiskTypeLargeFile, RiskTypeOutdatedDeps,
                 RiskTypeLowFeatureInvestment }
           -> CategoryTechDebt
      [] r \in { RiskTypeLateNight, RiskTypeOwnership }
           -> CategoryHealth
      [] OTHER -> CategoryQuality

\* RiskType.DisplayName: the names map, string(r) for a type not in it.
\* Tags stand for the Japanese display names.
DisplayName(r) ==
    CASE r = RiskTypeChangeConcentration -> "name_change_concentration"
      [] r = RiskTypeLargeFile -> "name_large_file"
      [] r = RiskTypeOwnership -> "name_ownership"
      [] r = RiskTypeOutdatedDeps -> "name_outdated_deps"
      [] r = RiskTypeLateNight -> "name_late_night"
      [] r = RiskTypeSlowLeadTime -> "name_slow_lead_time"
      [] r = RiskTypeSlowReview -> "name_slow_review"
      [] r = RiskTypeLargePR -> "name_large_pr"
      [] r = RiskTypeLowIssueClose -> "name_low_issue_close"
      [] r = RiskTypeBugFixHigh -> "name_bug_fix_high"
      [] r = RiskTypeLowDeployFreq -> "name_low_deploy_freq"
      [] r = RiskTypeHighChangeFailure -> "name_high_change_failure"
      [] r = RiskTypeSlowRecovery -> "name_slow_recovery"
      [] r = RiskTypeLowFeatureInvestment -> "name_low_feature_investment"
      [] OTHER -> r

\* domain.NewRisk: Description stays the zero value.
NewRisk(riskType, severity, target, value, threshold) ==
    [ Type |-> riskType, Severity |-> severity, Target |-> target,
      Description |-> <<>>, Value |-> value, Threshold |-> threshold ]

(***************************************************************************)
(* domain: Score                                                           *)
(***************************************************************************)
\* Mutant of NewScoreWithBreakdown: the lower clamp is missing.
NewScoreWithBreakdown_noFloor(value, breakdown) ==
    [ Value |-> IF value > 100 THEN 100 ELSE value, Breakdown |-> breakdown ]

\* NewScoreWithBreakdown: clamps to [0,100] and keeps the breakdown.
NewScoreWithBreakdown(value, breakdown) ==
    [ Value |-> IF value < 0 THEN 0 ELSE IF value > 100 THEN 100 ELSE value,
      Breakdown |-> breakdown ]

\* NewScore: clamps to [0,100]; the breakdown is nil.
NewScore(value) ==
    [ Value |-> IF value < 0 THEN 0 ELSE IF value > 100 THEN 100 ELSE value,
      Breakdown |-> <<>> ]

\* Score.Grade
Grade(s) ==
    IF s.Value >= 80 THEN "A"
    ELSE IF s.Value >= 60 THEN "B"
    ELSE IF s.Value >= 40 THEN "C"
    ELSE "D"

(***************************************************************************)
(* features/analyze: score constants, diagnosis and detail texts           *)
(***************************************************************************)
baseScore == 100
penaltyHigh == -15
penaltyMedium == -10
penaltyLow == -5

\* Mutant of generateDiagnosis: the grade A shortcut is missing.
generateDiagnosis_noGradeShortcut(cat, score, worstRisk) ==
    IF worstRisk = <<>> THEN <<"diag_good">>
    ELSE IF worstRisk[1].Type \in RiskTypes
         THEN <<"diag", worstRisk[1].Type>>
         ELSE <<"diag_improve">>

\* generateDiagnosis: one line of text per worst risk type.  <<"diag_good">>
\* is the text returned for grade A and for a nil worst risk, <<"diag", t>>
\* the text of the case for type t (14 distinct texts), <<"diag_improve">>
\* the default branch.
generateDiagnosis(cat, score, worstRisk) ==
    IF Grade(score) = "A" THEN <<"diag_good">>
    ELSE IF worstRisk = <<>> THEN <<"diag_good">>
    ELSE IF worstRisk[1].Type \in RiskTypes
         THEN <<"diag", worstRisk[1].Type>>
         ELSE <<"diag_improve">>

\* formatRiskDetail: the Sprintf result as <<format of the case, arguments>>.
\* A "%.1f" of float64(v)/10 is the pair <<v \div 10, v % 10>>.
formatRiskDetail(r) ==
    IF r.Value = 0 /\ r.Threshold = 0 THEN <<>>
    ELSE CASE r.Type = RiskTypeOutdatedDeps
                -> <<r.Type, r.Value, r.Threshold \div 12>>
           [] r.Type \in { RiskTypeSlowLeadTime, RiskTypeSlowReview }
                -> <<r.Type, r.Value \div 10, r.Value % 10, r.Threshold>>
           [] r.Type \in { RiskTypeLowDeployFreq, RiskTypeSlowRecovery }
                -> <<r.Type, r.Value \div 10, r.Value % 10,
                     r.Threshold \div 10, r.Threshold % 10>>
           [] r.Type \in RiskTypes
                -> <<r.Type, r.Value, r.Threshold>>
           [] OTHER -> <<"default", r.Value, r.Threshold>>

(***************************************************************************)
(* features/analyze: calculateCategoryScores, calculateOverallScore        *)
(***************************************************************************)
\* The categories slice, in its order.
categories ==
    <<CategoryVelocity, CategoryQuality, CategoryTechDebt, CategoryHealth>>

\* Mutant of severityPoints: a medium risk is charged like a high one.
severityPoints_mediumAsHigh(severity) ==
    CASE severity = SeverityHigh -> penaltyHigh
      [] severity = SeverityMedium -> penaltyHigh
      [] severity = SeverityLow -> penaltyLow
      [] OTHER -> 0

\* The switch on r.Severity; points stays 0 for any other severity.
severityPoints(severity) ==
    CASE severity = SeverityHigh -> penaltyHigh
      [] severity = SeverityMedium -> penaltyMedium
      [] severity = SeverityLow -> penaltyLow
      [] OTHER -> 0

\* Mutant of replacesWorst: an equal penalty replaces the worst risk.
replacesWorst_onTie(points, worstPoints) == points <= worstPoints

\* The test that makes r the new worst risk.
replacesWorst(points, worstPoints) == points < worstPoints

\* Mutant of categoryLoop: the first risk of a category is charged twice.
RECURSIVE categoryLoop_firstTwice(_, _, _, _)
categoryLoop_firstTwice(rs, i, cat, acc) ==
    IF i > Len(rs) THEN acc
    ELSE IF Category(rs[i].Type) # cat
    THEN categoryLoop_firstTwice(rs, i + 1, cat, acc)
    ELSE LET r == rs[i]
             points == severityPoints(r.Severity)
             replace == replacesWorst(points, acc.worstPoints)
         IN categoryLoop_firstTwice(rs, i + 1, cat,
              [ score |-> acc.score + points
                            + (IF Len(acc.breakdown) = 1 THEN points ELSE 0),
                breakdown |-> Append(acc.breakdown,
                                [ Label |-> DisplayName(r.Type),
                                  Points |-> points,
                                  Detail |-> formatRiskDetail(r) ]),
                worstRisk |-> IF replace THEN <<r>> ELSE acc.worstRisk,
                worstPoints |-> IF replace THEN points ELSE acc.worstPoints ])

\* The loop over risks for one category, from index i with the running
\* score, breakdown, worstRisk and worstPoints in acc.
RECURSIVE categoryLoop(_, _, _, _)
categoryLoop(rs, i, cat, acc) ==
    IF i > Len(rs) THEN acc
    ELSE IF Category(rs[i].Type) # cat THEN categoryLoop(rs, i + 1, cat, acc)
    ELSE LET r == rs[i]
             points == severityPoints(r.Severity)
             replace == replacesWorst(points, acc.worstPoints)
         IN categoryLoop(rs, i + 1, cat,
              [ score |-> acc.score + points,
                breakdown |-> Append(acc.breakdown,
                                [ Label |-> DisplayName(r.Type),
                                  Points |-> points,
                                  Detail |-> formatRiskDetail(r) ]),
                worstRisk |-> IF replace THEN <<r>> ELSE acc.worstRisk,
                worstPoints |-> IF replace THEN points ELSE acc.worstPoints ])

\* The body of the loop over categories: the CategoryScore of one category.
categoryScore(rs, cat) ==
    LET acc == categoryLoop(rs, 1, cat,
                 [ score |-> baseScore,
                   breakdown |-> << [ Label |-> "base_score",
                                      Points |-> baseScore,
                                      Detail |-> <<>> ] >>,
                   worstRisk |-> <<>>,
                   worstPoints |-> 0 ])
    IN [ Category |-> cat,
         Score |-> NewScoreWithBreakdown(acc.score, acc.breakdown),
         Diagnosis |-> generateDiagnosis(cat, NewScore(acc.score),
                                         acc.worstRisk) ]

\* Mutant of calculateCategoryScores: the breakdowns lack the base line.
calculateCategoryScores_noBase(rs) ==
    [ cat \in { categories[i] : i \in 1..Len(categories) }
        |-> [ categoryScore(rs, cat) EXCEPT !.Score.Breakdown = Tail(@) ] ]

\* calculateCategoryScores: the map filled by the loop over categories.
calculateCategoryScores(rs) ==
    [ cat \in { categories[i] : i \in 1..Len(categories) }
        |-> categoryScore(rs, cat) ]

\* Sum of Score.Value over the entries of a category map.
RECURSIVE totalValue(_, _)
totalValue(m, keys) ==
    IF keys = {} THEN 0
    ELSE LET k == CHOOSE x \in keys : TRUE
         IN m[k].Score.Value + totalValue(m, keys \ {k})

\* Mutant of calculateOverallScore: the mean is rounded up.
calculateOverallScore_roundsUp(m) ==
    IF Cardinality(DOMAIN m) = 0 THEN NewScore(0)
    ELSE NewScore((totalValue(m, DOMAIN m) + Cardinality(DOMAIN m) - 1)
                    \div Cardinality(DOMAIN m))

\* calculateOverallScore.  The total is not negative, so Go's truncating
\* division is \div.
calculateOverallScore(m) ==
    IF Cardinality(DOMAIN m) = 0 THEN NewScore(0)
    ELSE NewScore(totalValue(m, DOMAIN m) \div Cardinality(DOMAIN m))

(***************************************************************************)
(* Strings that the code inspects are sequences of one-character strings.  *)
(***************************************************************************)
\* strings.ToLower on one character.
ToLowerChar(c) ==
    CASE c = "A" -> "a" [] c = "B" -> "b" [] c = "C" -> "c" [] c = "D" -> "d"
      [] c = "E" -> "e" [] c = "F" -> "f" [] c = "G" -> "g" [] c = "H" -> "h"
      [] c = "I" -> "i" [] c = "J" -> "j" [] c = "K" -> "k" [] c = "L" -> "l"
      [] c = "M" -> "m" [] c = "N" -> "n" [] c = "O" -> "o" [] c = "P" -> "p"
      [] c = "Q" -> "q" [] c = "R" -> "r" [] c = "S" -> "s" [] c = "T" -> "t"
      [] c = "U" -> "u" [] c = "V" -> "v" [] c = "W" -> "w" [] c = "X" -> "x"
      [] c = "Y" -> "y" [] c = "Z" -> "z" [] OTHER -> c

\* strings.ToLower
ToLower(str) == [ i \in 1..Len(str) |-> ToLowerChar(str[i]) ]

\* strings.HasPrefix
HasPrefix(str, prefix) ==
    /\ Len(str) >= Len(prefix)
    /\ SubSeq(str, 1, Len(prefix)) = prefix

(***************************************************************************)
(* float64 values as exact rationals <<num, den>>, den > 0.                *)
(***************************************************************************)
RECURSIVE GCD(_, _)
GCD(a, b) == IF b = 0 THEN a ELSE GCD(b, a % b)

Abs(a) == IF a < 0 THEN 0 - a ELSE a

\* float64(a) / float64(b), b # 0, in lowest terms.
Ratio(a, b) ==
    LET g == GCD(Abs(a), Abs(b))
    IN IF b < 0 THEN <<(0 - a) \div g, (0 - b) \div g>>
       ELSE <<a \div g, b \div g>>

\* x + y, x / y (y # 0) and x * n for rationals x, y and an integer n.
RatAdd(x, y) == Ratio(x[1] * y[2] + y[1] * x[2], x[2] * y[2])
RatDiv(x, y) == Ratio(x[1] * y[2], x[2] * y[1])
RatMul(x, n) == Ratio(x[1] * n, x[2])

\* int(x) of Go for a rational x: truncation toward zero.
RatInt(x) ==
    IF x[1] >= 0 THEN x[1] \div x[2] ELSE 0 - ((0 - x[1]) \div x[2])

\* x < n, x <= n, x >= n, x > n for a rational x and an integer n.
RatLT(x, n) == x[1] < n * x[2]
RatLE(x, n) == x[1] <= n * x[2]
RatGE(x, n) == x[1] >= n * x[2]
RatGT(x, n) == x[1] > n * x[2]

\* x = y for two rationals.
RatEq(x, y) == x[1] * y[2] = y[1] * x[2]

(***************************************************************************)
(* domain.DateRange                                                        *)
(***************************************************************************)
\* int(x / y) of Go for y > 0: the quotient truncated toward zero.
TruncDiv(x, y) == IF x >= 0 THEN x \div y ELSE 0 - ((0 - x) \div y)

NewDateRange(from, to) == [ From |-> from, To |-> to ]

\* DateRange.Days: int(d.To.Sub(d.From).Hours() / 24)
Days(d) == TruncDiv(d.To - d.From, 24)

(***************************************************************************)
(* features/analyze: DORA metrics                                          *)
(***************************************************************************)
\* !t.Before(period.From) && !t.After(period.To)
inPeriod(t, p) == ~(t < p.From) /\ ~(t > p.To)

\* The counting loop over releases, from index i.
RECURSIVE countReleases(_, _, _)
countReleases(rels, p, i) ==
    IF i > Len(rels) THEN 0
    ELSE (IF inPeriod(rels[i].PublishedAt, p) THEN 1 ELSE 0)
         + countReleases(rels, p, i + 1)

\* Mutant of doraDeployFreqRating: the cutoffs belong to the lower band.
doraDeployFreqRating_strict(freq) ==
    IF RatGT(freq, 30) THEN "Elite"
    ELSE IF RatGT(freq, 4) THEN "High"
    ELSE IF RatGT(freq, 1) THEN "Medium"
    ELSE "Low"

\* doraDeployFreqRating
doraDeployFreqRating(freq) ==
    IF RatGE(freq, 30) THEN "Elite"
    ELSE IF RatGE(freq, 4) THEN "High"
    ELSE IF RatGE(freq, 1) THEN "Medium"
    ELSE "Low"

\* calculateDeployFrequency: <<freq, rating>>.
\* freq = float64(count) / (float64(days) / 30.0) = 30 * count / days.  For
\* every count up to 22 and every number of days the float64 result compares
\* with 30, 4 and 1 as the exact quotient does; from 23 releases on it can
\* fall just below 30 (23 releases in 23 days give 29.999999999999996).
calculateDeployFrequency(rels, p) ==
    IF Len(rels) = 0 THEN << <<0, 1>>, "N/A" >>
    ELSE LET count == countReleases(rels, p, 1)
             days == IF Days(p) = 0 THEN 1 ELSE Days(p)
             freq == Ratio(30 * count, days)
         IN <<freq, doraDeployFreqRating(freq)>>

\* The label a failure issue carries, after ToLower.
isFailureLabel(label) ==
    LET lower == ToLower(label)
    IN \/ lower = <<"b", "u", "g">>
       \/ lower = <<"i", "n", "c", "i", "d", "e", "n", "t">>
       \/ lower = <<"h", "o", "t", "f", "i", "x">>

\* Mutant of failureLabelHits: no break, every failure label is counted.
RECURSIVE failureLabelHits_noBreak(_, _)
failureLabelHits_noBreak(labels, i) ==
    IF i > Len(labels) THEN 0
    ELSE (IF isFailureLabel(labels[i]) THEN 1 ELSE 0)
         + failureLabelHits_noBreak(labels, i + 1)

\* The loop over issue.Labels from index i: failureCount++ and break at the
\* first failure label.
RECURSIVE failureLabelHits(_, _)
failureLabelHits(labels, i) ==
    IF i > Len(labels) THEN 0
    ELSE IF isFailureLabel(labels[i]) THEN 1
    ELSE failureLabelHits(labels, i + 1)

\* The loop over issues, from index i.
RECURSIVE countFailureIssues(_, _, _)
countFailureIssues(issues, p, i) ==
    IF i > Len(issues) THEN 0
    ELSE (IF inPeriod(issues[i].CreatedAt, p)
          THEN failureLabelHits(issues[i].Labels, 1) ELSE 0)
         + countFailureIssues(issues, p, i + 1)

\* countRevertCommits, from index i.
RECURSIVE countRevertCommitsFrom(_, _)
countRevertCommitsFrom(cs, i) ==
    IF i > Len(cs) THEN 0
    ELSE (IF HasPrefix(cs[i].Message, <<"R", "e", "v", "e", "r", "t", " ">>)
          THEN 1 ELSE 0)
         + countRevertCommitsFrom(cs, i + 1)

countRevertCommits(cs) == countRevertCommitsFrom(cs, 1)

\* doraChangeFailRating
doraChangeFailRating(x) ==
    IF RatLE(x, 15) THEN "Elite"
    ELSE IF RatLE(x, 30) THEN "High"
    ELSE IF RatLE(x, 45) THEN "Medium"
    ELSE "Low"

\* calculateChangeFailureRate: <<cfr, rating>>.
\* cfr = float64(failureCount) / float64(deployCount) * 100.
calculateChangeFailureRate(issues, rels, cs, p) ==
    LET deployCount == countReleases(rels, p, 1)
    IN IF deployCount = 0 THEN << <<0, 1>>, "N/A" >>
       ELSE LET failureCount == countFailureIssues(issues, p, 1)
                                  + countRevertCommits(cs)
                x == Ratio(100 * failureCount, deployCount)
            IN <<x, doraChangeFailRating(x)>>

(***************************************************************************)
(* features/analyze: thresholds of the risk detectors                      *)
(***************************************************************************)
changeConcentrationWarning == 10
changeConcentrationCritical == 20
lateNightStartHour == 22
lateNightEndHour == 5
largeFileWarningBytes == 51200
largeFileCriticalBytes == 102400
outdatedDepWarningMonths == 24
outdatedDepCriticalMonths == 36
prSizeThresholdLines == 500
maxPRDetailsCount == 20

\* The float64 thresholds.
ownershipThreshold == <<4, 5>>
lateNightRateThreshold == <<3, 10>>
leadTimeThresholdDays == <<7, 1>>
reviewWaitThresholdHours == <<48, 1>>
issueCloseRateThresholdPct == <<50, 1>>
bugFixRatioThresholdPct == <<50, 1>>
deployFreqThresholdPerMonth == <<1, 1>>
changeFailureThresholdPct == <<30, 1>>
mttrThresholdHours == <<24, 1>>
featureInvestmentThresholdPct == <<30, 1>>

\* x < y and x >= y for two rationals.
RatLess(x, y) == x[1] * y[2] < y[1] * x[2]
RatAtLeast(x, y) == ~RatLess(x, y)

\* A plain string as a text: token sequences stand for formatted strings,
\* the empty sequence for "".
Text(str) == <<str>>

\* "repository as a whole", the Target of the aggregate risks.
wholeRepository == Text("whole_repository")

\* time.Time.Hour, the time taken as it arrives.
Hour(t) == t % 24

(***************************************************************************)
(* features/analyze: risk detection from the data sources                  *)
(***************************************************************************)
\* Occurrences of path f in one Files list.
Occurrences(fs, f) == Cardinality({ j \in 1..Len(fs) : fs[j] = f })

RECURSIVE changesOf(_, _, _)
changesOf(cs, f, i) ==
    IF i > Len(cs) THEN 0
    ELSE Occurrences(cs[i].Files, f) + changesOf(cs, f, i + 1)

\* The fileChanges map after the counting loops.
fileChanges(cs) ==
    [ f \in UNION { { cs[i].Files[j] : j \in 1..Len(cs[i].Files) }
                    : i \in 1..Len(cs) }
        |-> changesOf(cs, f, 1) ]

\* The orders in which a range over a map with key set S can visit the keys.
IterationOrders(S) ==
    { o \in [1..Cardinality(S) -> S] :
        \A i, j \in 1..Cardinality(S) : i # j => o[i] # o[j] }

\* Mutant of reportChanges: a count equal to a threshold is under it.
RECURSIVE reportChanges_above(_, _, _)
reportChanges_above(fc, order, i) ==
    IF i > Len(order) THEN <<>>
    ELSE LET file == order[i]
             count == fc[file]
         IN (IF count > changeConcentrationCritical
             THEN << NewRisk(RiskTypeChangeConcentration, SeverityHigh,
                             Text(file), count,
                             changeConcentrationCritical) >>
             ELSE IF count > changeConcentrationWarning
             THEN << NewRisk(RiskTypeChangeConcentration, SeverityMedium,
                             Text(file), count,
                             changeConcentrationWarning) >>
             ELSE <<>>)
            \o reportChanges_above(fc, order, i + 1)

\* The reporting loop of detectChangeConcentration, visiting the keys of
\* the map in the order given, from index i.
RECURSIVE reportChanges(_, _, _)
reportChanges(fc, order, i) ==
    IF i > Len(order) THEN <<>>
    ELSE LET file == order[i]
             count == fc[file]
         IN (IF count >= changeConcentrationCritical
             THEN << NewRisk(RiskTypeChangeConcentration, SeverityHigh,
                             Text(file), count,
                             changeConcentrationCritical) >>
             ELSE IF count >= changeConcentrationWarning
             THEN << NewRisk(RiskTypeChangeConcentration, SeverityMedium,
                             Text(file), count,
                             changeConcentrationWarning) >>
             ELSE <<>>)
            \o reportChanges(fc, order, i + 1)

\* detectChangeConcentration, the range over fileChanges visiting the keys
\* in the given order.
detectChangeConcentration(cs, order) ==
    reportChanges(fileChanges(cs), order, 1)

RECURSIVE totalContributions(_, _)
totalContributions(cons, i) ==
    IF i > Len(cons) THEN 0
    ELSE cons[i].Contributions + totalContributions(cons, i + 1)

\* Mutant of detectOwnershipRisk: a share equal to the threshold raises no
\* risk.
detectOwnershipRisk_above(cons) ==
    IF Len(cons) = 0 THEN <<>>
    ELSE LET totalCommits == totalContributions(cons, 1)
         IN IF totalCommits = 0 THEN <<>>
            ELSE LET topContributor == cons[1]
                     ratio == Ratio(topContributor.Contributions,
                                    totalCommits)
                 IN IF RatLess(ownershipThreshold, ratio)
                    THEN << [ Type |-> RiskTypeOwnership,
                              Severity |-> SeverityMedium,
                              Target |-> Text(topContributor.Login),
                              Description |-> Text("desc_ownership"),
                              Value |-> RatInt(RatMul(ratio, 100)),
                              Threshold |->
                                RatInt(RatMul(ownershipThreshold, 100)) ] >>
                    ELSE <<>>

\* detectOwnershipRisk
detectOwnershipRisk(cons) ==
    IF Len(cons) = 0 THEN <<>>
    ELSE LET totalCommits == totalContributions(cons, 1)
         IN IF totalCommits = 0 THEN <<>>
            ELSE LET topContributor == cons[1]
                     ratio == Ratio(topContributor.Contributions,
                                    totalCommits)
                 IN IF RatAtLeast(ratio, ownershipThreshold)
                    THEN << [ Type |-> RiskTypeOwnership,
                              Severity |-> SeverityMedium,
                              Target |-> Text(topContributor.Login),
                              Description |-> Text("desc_ownership"),
                              Value |-> RatInt(RatMul(ratio, 100)),
                              Threshold |->
                                RatInt(RatMul(ownershipThreshold, 100)) ] >>
                    ELSE <<>>

\* Mutant of countLateNightFrom: the hour lateNightEndHour is counted too.
RECURSIVE countLateNightFrom_toFive(_, _)
countLateNightFrom_toFive(cs, i) ==
    IF i > Len(cs) THEN 0
    ELSE (IF Hour(cs[i].Date) >= lateNightStartHour
             \/ Hour(cs[i].Date) <= lateNightEndHour
          THEN 1 ELSE 0)
         + countLateNightFrom_toFive(cs, i + 1)

\* countLateNightCommits, from index i.
RECURSIVE countLateNightFrom(_, _)
countLateNightFrom(cs, i) ==
    IF i > Len(cs) THEN 0
    ELSE (IF Hour(cs[i].Date) >= lateNightStartHour
             \/ Hour(cs[i].Date) < lateNightEndHour
          THEN 1 ELSE 0)
         + countLateNightFrom(cs, i + 1)

countLateNightCommits(cs) == countLateNightFrom(cs, 1)

\* detectLateNightRisk.  The exact ratio and the float64 ratio give the same
\* comparison with the threshold and, for the commit counts used here, the
\* same int(ratio * 100).
detectLateNightRisk(cs) ==
    IF Len(cs) = 0 THEN <<>>
    ELSE LET ratio == Ratio(countLateNightCommits(cs), Len(cs))
         IN IF RatAtLeast(ratio, lateNightRateThreshold)
            THEN << [ Type |-> RiskTypeLateNight,
                      Severity |-> SeverityMedium,
                      Target |-> wholeRepository,
                      Description |-> Text("desc_late_night"),
                      Value |-> RatInt(RatMul(ratio, 100)),
                      Threshold |->
                        RatInt(RatMul(lateNightRateThreshold, 100)) ] >>
            ELSE <<>>

\* The largeFiles list built by the loop of detectLargeFiles, from index i.
RECURSIVE largeFilesFrom(_, _)
largeFilesFrom(fs, i) ==
    IF i > Len(fs) THEN <<>>
    ELSE (IF fs[i].Size >= largeFileCriticalBytes
          THEN << [ Path |-> fs[i].Path, SizeKB |-> fs[i].Size \div 1024,
                    Severity |-> SeverityHigh ] >>
          ELSE IF fs[i].Size >= largeFileWarningBytes
          THEN << [ Path |-> fs[i].Path, SizeKB |-> fs[i].Size \div 1024,
                    Severity |-> SeverityMedium ] >>
          ELSE <<>>)
         \o largeFilesFrom(fs, i + 1)

\* highCount / mediumCount: the entries of one severity.
countSeverity(items, sev) ==
    Cardinality({ i \in 1..Len(items) : items[i].Severity = sev })

\* Mutant of detectLargeFiles: a file of the High bucket hides the Medium
\* risk.
detectLargeFiles_highOnly(fs) ==
    LET found == largeFilesFrom(fs, 1)
        highCount == countSeverity(found, SeverityHigh)
        mediumCount == countSeverity(found, SeverityMedium)
    IN << (IF highCount > 0
           THEN << [ Type |-> RiskTypeLargeFile,
                     Severity |-> SeverityHigh,
                     Target |-> <<"count_items", highCount>>,
                     Description |-> <<"desc_huge_file_kb",
                                       largeFileCriticalBytes \div 1024>>,
                     Value |-> highCount,
                     Threshold |-> largeFileCriticalBytes \div 1024 ] >>
           ELSE <<>>)
          \o (IF mediumCount > 0 /\ highCount = 0
              THEN << [ Type |-> RiskTypeLargeFile,
                        Severity |-> SeverityMedium,
                        Target |-> <<"count_items", mediumCount>>,
                        Description |-> <<"desc_large_file_kb",
                                          largeFileWarningBytes \div 1024>>,
                        Value |-> mediumCount,
                        Threshold |-> largeFileWarningBytes \div 1024 ] >>
              ELSE <<>>),
          found >>

\* detectLargeFiles: <<risks, largeFiles>>.
detectLargeFiles(fs) ==
    LET found == largeFilesFrom(fs, 1)
        highCount == countSeverity(found, SeverityHigh)
        mediumCount == countSeverity(found, SeverityMedium)
    IN << (IF highCount > 0
           THEN << [ Type |-> RiskTypeLargeFile,
                     Severity |-> SeverityHigh,
                     Target |-> <<"count_items", highCount>>,
                     Description |-> <<"desc_huge_file_kb",
                                       largeFileCriticalBytes \div 1024>>,
                     Value |-> highCount,
                     Threshold |-> largeFileCriticalBytes \div 1024 ] >>
           ELSE <<>>)
          \o (IF mediumCount > 0
              THEN << [ Type |-> RiskTypeLargeFile,
                        Severity |-> SeverityMedium,
                        Target |-> <<"count_items", mediumCount>>,
                        Description |-> <<"desc_large_file_kb",
                                          largeFileWarningBytes \div 1024>>,
                        Value |-> mediumCount,
                        Threshold |-> largeFileWarningBytes \div 1024 ] >>
              ELSE <<>>),
          found >>

\* formatAge: "%dM", "%dY" or "%dY%dM".
formatAge(months) ==
    LET years == months \div 12
        remainingMonths == months % 12
    IN IF years = 0 THEN <<"age_m", remainingMonths>>
       ELSE IF remainingMonths = 0 THEN <<"age_y", years>>
       ELSE <<"age_ym", years, remainingMonths>>

\* The outdatedDeps list built by the loop of detectOutdatedDeps.
RECURSIVE outdatedDepsFrom(_, _)
outdatedDepsFrom(deps, i) ==
    IF i > Len(deps) THEN <<>>
    ELSE (IF deps[i].AgeMonths >= outdatedDepCriticalMonths
          THEN << [ Name |-> deps[i].Name, Version |-> deps[i].Version,
                    Age |-> formatAge(deps[i].AgeMonths),
                    Severity |-> SeverityHigh ] >>
          ELSE IF deps[i].AgeMonths >= outdatedDepWarningMonths
          THEN << [ Name |-> deps[i].Name, Version |-> deps[i].Version,
                    Age |-> formatAge(deps[i].AgeMonths),
                    Severity |-> SeverityMedium ] >>
          ELSE <<>>)
         \o outdatedDepsFrom(deps, i + 1)

\* detectOutdatedDeps: <<risks, outdatedDeps>>.
detectOutdatedDeps(deps) ==
    LET found == outdatedDepsFrom(deps, 1)
        highCount == countSeverity(found, SeverityHigh)
        mediumCount == countSeverity(found, SeverityMedium)
    IN << (IF highCount > 0
           THEN << [ Type |-> RiskTypeOutdatedDeps,
                     Severity |-> SeverityHigh,
                     Target |-> <<"count_items", highCount>>,
                     Description |-> <<"desc_outdated_years",
                                       outdatedDepCriticalMonths \div 12>>,
                     Value |-> highCount,
                     Threshold |-> outdatedDepCriticalMonths ] >>
           ELSE <<>>)
          \o (IF mediumCount > 0
              THEN << [ Type |-> RiskTypeOutdatedDeps,
                        Severity |-> SeverityMedium,
                        Target |-> <<"count_items", mediumCount>>,
                        Description |-> <<"desc_outdated_years",
                                          outdatedDepWarningMonths \div 12>>,
                        Value |-> mediumCount,
                        Threshold |-> outdatedDepWarningMonths ] >>
              ELSE <<>>),
          found >>

\* detectRisks: <<risks, largeFiles>>, the range over the fileChanges map
\* visiting its keys in the given order.
detectRisks(cs, cons, fs, order) ==
    LET lf == detectLargeFiles(fs)
    IN << detectChangeConcentration(cs, order)
            \o detectOwnershipRisk(cons)
            \o detectLateNightRisk(cs)
            \o lf[1],
          lf[2] >>

(***************************************************************************)
(* features/analyze: metrics                                               *)
(***************************************************************************)
RatSub(x, y) == Ratio(x[1] * y[2] - y[1] * x[2], x[2] * y[2])

\* The tenths printed by "%.1f" for x >= 0: the nearest tenth, a tie going
\* to the even digit.
FormatTenths(x) ==
    LET scaled == 10 * x[1]
        q == scaled \div x[2]
        r == scaled % x[2]
    IN IF 2 * r > x[2] THEN q + 1
       ELSE IF 2 * r < x[2] THEN q
       ELSE IF q % 2 = 0 THEN q ELSE q + 1

\* PullRequest.LeadTime
LeadTime(pr) ==
    IF pr.MergedAt = <<>> THEN <<-1, 1>>
    ELSE Ratio(pr.MergedAt[1] - pr.CreatedAt, 24)

\* PullRequest.IsBugFix
IsBugFix(pr) ==
    LET branch == ToLower(pr.HeadBranch)
    IN \/ HasPrefix(branch, <<"f", "i", "x", "/">>)
       \/ HasPrefix(branch, <<"b", "u", "g", "f", "i", "x", "/">>)
       \/ HasPrefix(branch, <<"h", "o", "t", "f", "i", "x", "/">>)

\* Mutant of IsFeature: the prefix "f" instead of "feature/" and "feat/".
IsFeature_anyF(pr) ==
    LET branch == ToLower(pr.HeadBranch)
    IN HasPrefix(branch, <<"f">>)

\* PullRequest.IsFeature
IsFeature(pr) ==
    LET branch == ToLower(pr.HeadBranch)
    IN \/ HasPrefix(branch, <<"f", "e", "a", "t", "u", "r", "e", "/">>)
       \/ HasPrefix(branch, <<"f", "e", "a", "t", "/">>)

\* PullRequest.IsRefactor
IsRefactor(pr) ==
    LET branch == ToLower(pr.HeadBranch)
    IN \/ HasPrefix(branch, <<"r", "e", "f", "a", "c", "t", "o", "r", "/">>)
       \/ HasPrefix(branch, <<"c", "h", "o", "r", "e", "/">>)
       \/ HasPrefix(branch, <<"d", "e", "b", "t", "/">>)
       \/ HasPrefix(branch, <<"c", "i", "/">>)
       \/ HasPrefix(branch, <<"d", "o", "c", "s", "/">>)

\* The branch of the if-chain of calculatePRBreakdown a merged PR takes.
prKind(pr) ==
    IF IsFeature(pr) THEN "Feature"
    ELSE IF IsBugFix(pr) THEN "BugFix"
    ELSE IF IsRefactor(pr) THEN "Refactor"
    ELSE "Other"

countKind(prs, kind) ==
    Cardinality({ i \in 1..Len(prs) :
                    prs[i].MergedAt # <<>> /\ prKind(prs[i]) = kind })

\* Mutant of calculatePRBreakdown: a closed pull request that was not
\* merged counts as Other.
calculatePRBreakdown_allClosed(prs) ==
    LET feature == countKind(prs, "Feature")
        bugFix == countKind(prs, "BugFix")
        refactor == countKind(prs, "Refactor")
        other == Len(prs) - feature - bugFix - refactor
        total == feature + bugFix + refactor + other
    IN [ Feature |-> feature, BugFix |-> bugFix, Refactor |-> refactor,
         Other |-> other,
         BugFixRatio |->
           IF total > 0 THEN RatMul(Ratio(bugFix, total), 100) ELSE <<0, 1>>,
         FeatureRatio |->
           IF total > 0 THEN RatMul(Ratio(feature, total), 100) ELSE <<0, 1>>,
         RefactorRatio |->
           IF total > 0 THEN RatMul(Ratio(refactor, total), 100)
           ELSE <<0, 1>> ]

\* calculatePRBreakdown
calculatePRBreakdown(prs) ==
    LET feature == countKind(prs, "Feature")
        bugFix == countKind(prs, "BugFix")
        refactor == countKind(prs, "Refactor")
        other == countKind(prs, "Other")
        total == feature + bugFix + refactor + other
    IN [ Feature |-> feature, BugFix |-> bugFix, Refactor |-> refactor,
         Other |-> other,
         BugFixRatio |->
           IF total > 0 THEN RatMul(Ratio(bugFix, total), 100) ELSE <<0, 1>>,
         FeatureRatio |->
           IF total > 0 THEN RatMul(Ratio(feature, total), 100) ELSE <<0, 1>>,
         RefactorRatio |->
           IF total > 0 THEN RatMul(Ratio(refactor, total), 100)
           ELSE <<0, 1>> ]

\* Mutant of leadTimeLoop: the test is on the merge timestamp, not on the
\* lead time.
RECURSIVE leadTimeLoop_ifMerged(_, _)
leadTimeLoop_ifMerged(prs, i) ==
    IF i > Len(prs) THEN << <<0, 1>>, 0 >>
    ELSE LET rest == leadTimeLoop_ifMerged(prs, i + 1)
             leadTime == LeadTime(prs[i])
         IN IF prs[i].MergedAt # <<>>
            THEN << RatAdd(leadTime, rest[1]), rest[2] + 1 >>
            ELSE rest

\* The loop of calculateAvgLeadTime from index i: <<totalLeadTime,
\* mergedCount>>.
RECURSIVE leadTimeLoop(_, _)
leadTimeLoop(prs, i) ==
    IF i > Len(prs) THEN << <<0, 1>>, 0 >>
    ELSE LET rest == leadTimeLoop(prs, i + 1)
             leadTime == LeadTime(prs[i])
         IN IF leadTime[1] >= 0
            THEN << RatAdd(leadTime, rest[1]), rest[2] + 1 >>
            ELSE rest

\* calculateAvgLeadTime
calculateAvgLeadTime(prs) ==
    LET acc == leadTimeLoop(prs, 1)
    IN IF acc[2] = 0 THEN <<0, 1>> ELSE RatDiv(acc[1], <<acc[2], 1>>)

\* Mutant of calculateIssueStats: an issue counts as closed only when it
\* was also created inside the period.
calculateIssueStats_ofCreated(issues, p) ==
    LET created == Cardinality({ i \in 1..Len(issues) :
                                   inPeriod(issues[i].CreatedAt, p) })
        closed == Cardinality({ i \in 1..Len(issues) :
                                  /\ inPeriod(issues[i].CreatedAt, p)
                                  /\ issues[i].ClosedAt # <<>>
                                  /\ inPeriod(issues[i].ClosedAt[1], p) })
    IN [ Created |-> created, Closed |-> closed,
         CloseRate |->
           IF created > 0 THEN RatMul(Ratio(closed, created), 100)
           ELSE <<0, 1>> ]

\* calculateIssueStats
calculateIssueStats(issues, p) ==
    LET created == Cardinality({ i \in 1..Len(issues) :
                                   inPeriod(issues[i].CreatedAt, p) })
        closed == Cardinality({ i \in 1..Len(issues) :
                                  /\ issues[i].ClosedAt # <<>>
                                  /\ inPeriod(issues[i].ClosedAt[1], p) })
    IN [ Created |-> created, Closed |-> closed,
         CloseRate |->
           IF created > 0 THEN RatMul(Ratio(closed, created), 100)
           ELSE <<0, 1>> ]

\* The label loop of calculateMTTR.
isBug(labels) == \E i \in 1..Len(labels) : isFailureLabel(labels[i])

\* Mutant of mttrLoop: no test of hours >= 0, an issue closed before its
\* creation is added too.
RECURSIVE mttrLoop_anyHours(_, _, _)
mttrLoop_anyHours(issues, p, i) ==
    IF i > Len(issues) THEN <<0, 0>>
    ELSE LET rest == mttrLoop_anyHours(issues, p, i + 1)
             issue == issues[i]
         IN IF issue.ClosedAt = <<>> THEN rest
            ELSE IF issue.CreatedAt < p.From \/ issue.CreatedAt > p.To
            THEN rest
            ELSE IF ~isBug(issue.Labels) THEN rest
            ELSE << rest[1] + (issue.ClosedAt[1] - issue.CreatedAt),
                    rest[2] + 1 >>

\* The loop of calculateMTTR from index i: <<totalHours, count>>.
RECURSIVE mttrLoop(_, _, _)
mttrLoop(issues, p, i) ==
    IF i > Len(issues) THEN <<0, 0>>
    ELSE LET rest == mttrLoop(issues, p, i + 1)
             issue == issues[i]
         IN IF issue.ClosedAt = <<>> THEN rest
            ELSE IF issue.CreatedAt < p.From \/ issue.CreatedAt > p.To
            THEN rest
            ELSE IF ~isBug(issue.Labels) THEN rest
            ELSE IF issue.ClosedAt[1] - issue.CreatedAt >= 0
            THEN << rest[1] + (issue.ClosedAt[1] - issue.CreatedAt),
                    rest[2] + 1 >>
            ELSE rest

\* doraMTTRRating
doraMTTRRating(x) ==
    IF RatLT(x, 1) THEN "Elite"
    ELSE IF RatLT(x, 24) THEN "High"
    ELSE IF RatLT(x, 168) THEN "Medium"
    ELSE "Low"

\* calculateMTTR: <<mttr, rating>>.
calculateMTTR(issues, p) ==
    LET acc == mttrLoop(issues, p, 1)
    IN IF acc[2] = 0 THEN << <<0, 1>>, "N/A" >>
       ELSE << Ratio(acc[1], acc[2]), doraMTTRRating(Ratio(acc[1], acc[2])) >>

\* calculateMetrics
calculateMetrics(in) ==
    LET days == IF Days(in.period) = 0 THEN 1 ELSE Days(in.period)
        lateNightRate ==
            IF Len(in.commits) > 0
            THEN RatMul(Ratio(countLateNightCommits(in.commits),
                              Len(in.commits)), 100)
            ELSE <<0, 1>>
        prb == calculatePRBreakdown(in.closedPRs)
        is == calculateIssueStats(in.allIssues, in.period)
        deploy == calculateDeployFrequency(in.releases, in.period)
        fail == calculateChangeFailureRate(in.allIssues, in.releases,
                                           in.commits, in.period)
        recovery == calculateMTTR(in.allIssues, in.period)
        revertCount == countRevertCommits(in.commits)
        revertRate ==
            IF Len(in.commits) > 0
            THEN RatMul(Ratio(revertCount, Len(in.commits)), 100)
            ELSE <<0, 1>>
    IN [ TotalCommits |-> Len(in.commits),
         FeatureAdditionRate |-> Ratio(Len(in.commits), days),
         AvgLeadTime |-> calculateAvgLeadTime(in.closedPRs),
         AvgReviewWaitTime |-> in.avgReviewWaitTime,
         OpenPRCount |-> Len(in.openPRs),
         OpenIssueCount |-> Len(in.openIssues),
         BugFixRatio |-> prb.BugFixRatio,
         ReworkRate |-> revertRate,
         AvgPRSize |-> in.avgPRSize,
         IssueCloseRate |-> is.CloseRate,
         IssuesCreated |-> is.Created,
         IssuesClosed |-> is.Closed,
         FeaturePRCount |-> prb.Feature,
         BugFixPRCount |-> prb.BugFix,
         OtherPRCount |-> prb.Other,
         DeployFrequency |-> deploy[1],
         DeployFreqRating |-> deploy[2],
         ChangeFailureRate |-> fail[1],
         ChangeFailRating |-> fail[2],
         MTTR |-> recovery[1],
         MTTRRating |-> recovery[2],
         RefactorPRCount |-> prb.Refactor,
         FeatureRatio |-> prb.FeatureRatio,
         RefactorRatio |-> prb.RefactorRatio,
         RevertCommitCount |-> revertCount,
         RevertRate |-> revertRate,
         TotalFiles |-> Len(in.files),
         TotalContributors |-> Len(in.contributors),
         LateNightCommitRate |-> lateNightRate ]

\* domain.Metrics{}: the zero value.
zeroMetrics ==
    [ DeployFreqRating |-> "", ChangeFailRating |-> "", MTTRRating |-> "" ]
      @@ calculateMetrics([ commits |-> <<>>, contributors |-> <<>>,
                            closedPRs |-> <<>>, openPRs |-> <<>>,
                            allIssues |-> <<>>, openIssues |-> <<>>,
                            files |-> <<>>, releases |-> <<>>,
                            period |-> [ From |-> 0, To |-> 0 ],
                            avgReviewWaitTime |-> <<0, 1>>,
                            avgPRSize |-> 0 ])

\* One risk of detectMetricRisks: its Target is the whole repository.
metricRisk(riskType, severity, description, value, threshold) ==
    [ Type |-> riskType, Severity |-> severity, Target |-> wholeRepository,
      Description |-> description, Value |-> value, Threshold |-> threshold ]

\* Mutant of detectMetricRisks: an MTTR equal to the threshold raises the
\* risk.
detectMetricRisks_atThreshold(m) ==
    LET totalPRs == m.FeaturePRCount + m.BugFixPRCount + m.RefactorPRCount
                      + m.OtherPRCount
    IN (IF RatLess(leadTimeThresholdDays, m.AvgLeadTime)
        THEN << metricRisk(RiskTypeSlowLeadTime, SeverityMedium,
                  <<"desc_lead_time_days", FormatTenths(m.AvgLeadTime)>>,
                  RatInt(RatMul(m.AvgLeadTime, 10)),
                  RatInt(leadTimeThresholdDays)) >>
        ELSE <<>>)
       \o (IF RatLess(reviewWaitThresholdHours, m.AvgReviewWaitTime)
           THEN << metricRisk(RiskTypeSlowReview, SeverityMedium,
                     <<"desc_review_wait_hours",
                       FormatTenths(m.AvgReviewWaitTime)>>,
                     RatInt(RatMul(m.AvgReviewWaitTime, 10)),
                     RatInt(reviewWaitThresholdHours)) >>
           ELSE <<>>)
       \o (IF m.AvgPRSize > prSizeThresholdLines
           THEN << metricRisk(RiskTypeLargePR, SeverityMedium,
                     <<"desc_pr_size_lines", m.AvgPRSize>>,
                     m.AvgPRSize, prSizeThresholdLines) >>
           ELSE <<>>)
       \o (IF m.IssuesCreated > 0
              /\ RatLess(m.IssueCloseRate, issueCloseRateThresholdPct)
           THEN << metricRisk(RiskTypeLowIssueClose, SeverityMedium,
                     <<"desc_issue_close_pct",
                       FormatTenths(m.IssueCloseRate)>>,
                     RatInt(m.IssueCloseRate),
                     RatInt(issueCloseRateThresholdPct)) >>
           ELSE <<>>)
       \o (IF RatLess(bugFixRatioThresholdPct, m.BugFixRatio)
           THEN << metricRisk(RiskTypeBugFixHigh, SeverityMedium,
                     <<"desc_bug_fix_pct", FormatTenths(m.BugFixRatio)>>,
                     RatInt(m.BugFixRatio),
                     RatInt(bugFixRatioThresholdPct)) >>
           ELSE <<>>)
       \o (IF RatGT(m.DeployFrequency, 0)
              /\ RatLess(m.DeployFrequency, deployFreqThresholdPerMonth)
           THEN << metricRisk(RiskTypeLowDeployFreq, SeverityMedium,
                     <<"desc_deploy_per_month",
                       FormatTenths(m.DeployFrequency)>>,
                     RatInt(RatMul(m.DeployFrequency, 10)),
                     RatInt(RatMul(deployFreqThresholdPerMonth, 10))) >>
           ELSE <<>>)
       \o (IF RatLess(changeFailureThresholdPct, m.ChangeFailureRate)
           THEN << metricRisk(RiskTypeHighChangeFailure, SeverityHigh,
                     <<"desc_change_failure_pct",
                       FormatTenths(m.ChangeFailureRate)>>,
                     RatInt(m.ChangeFailureRate),
                     RatInt(changeFailureThresholdPct)) >>
           ELSE <<>>)
       \o (IF ~RatLess(m.MTTR, mttrThresholdHours)
           THEN << metricRisk(RiskTypeSlowRecovery, SeverityMedium,
                     <<"desc_mttr_hours", FormatTenths(m.MTTR)>>,
                     RatInt(RatMul(m.MTTR, 10)),
                     RatInt(RatMul(mttrThresholdHours, 10))) >>
           ELSE <<>>)
       \o (IF totalPRs > 0
              /\ RatLess(m.FeatureRatio, featureInvestmentThresholdPct)
           THEN << metricRisk(RiskTypeLowFeatureInvestment, SeverityMedium,
                     <<"desc_feature_pct", FormatTenths(m.FeatureRatio)>>,
                     RatInt(m.FeatureRatio),
                     RatInt(featureInvestmentThresholdPct)) >>
           ELSE <<>>)

\* detectMetricRisks
detectMetricRisks(m) ==
    LET totalPRs == m.FeaturePRCount + m.BugFixPRCount + m.RefactorPRCount
                      + m.OtherPRCount
    IN (IF RatLess(leadTimeThresholdDays, m.AvgLeadTime)
        THEN << metricRisk(RiskTypeSlowLeadTime, SeverityMedium,
                  <<"desc_lead_time_days", FormatTenths(m.AvgLeadTime)>>,
                  RatInt(RatMul(m.AvgLeadTime, 10)),
                  RatInt(leadTimeThresholdDays)) >>
        ELSE <<>>)
       \o (IF RatLess(reviewWaitThresholdHours, m.AvgReviewWaitTime)
           THEN << metricRisk(RiskTypeSlowReview, SeverityMedium,
                     <<"desc_review_wait_hours",
                       FormatTenths(m.AvgReviewWaitTime)>>,
                     RatInt(RatMul(m.AvgReviewWaitTime, 10)),
                     RatInt(reviewWaitThresholdHours)) >>
           ELSE <<>>)
       \o (IF m.AvgPRSize > prSizeThresholdLines
           THEN << metricRisk(RiskTypeLargePR, SeverityMedium,
                     <<"desc_pr_size_lines", m.AvgPRSize>>,
                     m.AvgPRSize, prSizeThresholdLines) >>
           ELSE <<>>)
       \o (IF m.IssuesCreated > 0
              /\ RatLess(m.IssueCloseRate, issueCloseRateThresholdPct)
           THEN << metricRisk(RiskTypeLowIssueClose, SeverityMedium,
                     <<"desc_issue_close_pct",
                       FormatTenths(m.IssueCloseRate)>>,
                     RatInt(m.IssueCloseRate),
                     RatInt(issueCloseRateThresholdPct)) >>
           ELSE <<>>)
       \o (IF RatLess(bugFixRatioThresholdPct, m.BugFixRatio)
           THEN << metricRisk(RiskTypeBugFixHigh, SeverityMedium,
                     <<"desc_bug_fix_pct", FormatTenths(m.BugFixRatio)>>,
                     RatInt(m.BugFixRatio),
                     RatInt(bugFixRatioThresholdPct)) >>
           ELSE <<>>)
       \o (IF RatGT(m.DeployFrequency, 0)
              /\ RatLess(m.DeployFrequency, deployFreqThresholdPerMonth)
           THEN << metricRisk(RiskTypeLowDeployFreq, SeverityMedium,
                     <<"desc_deploy_per_month",
                       FormatTenths(m.DeployFrequency)>>,
                     RatInt(RatMul(m.DeployFrequency, 10)),
                     RatInt(RatMul(deployFreqThresholdPerMonth, 10))) >>
           ELSE <<>>)
       \o (IF RatLess(changeFailureThresholdPct, m.ChangeFailureRate)
           THEN << metricRisk(RiskTypeHighChangeFailure, SeverityHigh,
                     <<"desc_change_failure_pct",
                       FormatTenths(m.ChangeFailureRate)>>,
                     RatInt(m.ChangeFailureRate),
                     RatInt(changeFailureThresholdPct)) >>
           ELSE <<>>)
       \o (IF RatLess(mttrThresholdHours, m.MTTR)
           THEN << metricRisk(RiskTypeSlowRecovery, SeverityMedium,
                     <<"desc_mttr_hours", FormatTenths(m.MTTR)>>,
                     RatInt(RatMul(m.MTTR, 10)),
                     RatInt(RatMul(mttrThresholdHours, 10))) >>
           ELSE <<>>)
       \o (IF totalPRs > 0
              /\ RatLess(m.FeatureRatio, featureInvestmentThresholdPct)
           THEN << metricRisk(RiskTypeLowFeatureInvestment, SeverityMedium,
                     <<"desc_feature_pct", FormatTenths(m.FeatureRatio)>>,
                     RatInt(m.FeatureRatio),
                     RatInt(featureInvestmentThresholdPct)) >>
           ELSE <<>>)

(***************************************************************************)
(* features/analyze: PR details, drill-down data and trends                *)
(***************************************************************************)
\* Mutant of processedPRs: the loop goes on past maxPRDetailsCount.
RECURSIVE processedPRs_noBreak(_, _, _)
processedPRs_noBreak(prs, i, count) ==
    IF i > Len(prs) THEN <<>>
    ELSE IF prs[i].MergedAt = <<>>
    THEN processedPRs_noBreak(prs, i + 1, count)
    ELSE <<prs[i]>> \o processedPRs_noBreak(prs, i + 1, count + 1)

\* The pull requests the loop of buildPRDetails processes, from index i
\* with count already processed: unmerged ones are skipped, the loop
\* breaks at the first merged one past maxPRDetailsCount.
RECURSIVE processedPRs(_, _, _)
processedPRs(prs, i, count) ==
    IF i > Len(prs) THEN <<>>
    ELSE IF prs[i].MergedAt = <<>> THEN processedPRs(prs, i + 1, count)
    ELSE IF count >= maxPRDetailsCount THEN <<>>
    ELSE <<prs[i]>> \o processedPRs(prs, i + 1, count + 1)

\* The first review with the earliest SubmittedAt, scanning from index i.
RECURSIVE firstReviewFrom(_, _, _)
firstReviewFrom(reviews, i, firstReview) ==
    IF i > Len(reviews) THEN firstReview
    ELSE firstReviewFrom(reviews, i + 1,
            IF reviews[i].SubmittedAt < firstReview.SubmittedAt
            THEN reviews[i] ELSE firstReview)

\* The PRDetail of one processed pull request; detail and reviews are the
\* answers of GetPRDetail and GetPRReviews, empty when the call failed.
prDetailOf(pr, detail, reviews) ==
    LET waitTime ==
            IF Len(reviews) > 0
            THEN firstReviewFrom(reviews, 1, reviews[1]).SubmittedAt
                   - pr.CreatedAt
            ELSE -1
    IN [ Number |-> pr.Number,
         Title |-> pr.Title,
         Author |-> pr.Author,
         LeadTimeDays |-> LeadTime(pr),
         Size |-> IF detail # <<>>
                  THEN detail[1].Additions + detail[1].Deletions ELSE 0,
         Additions |-> IF detail # <<>> THEN detail[1].Additions ELSE 0,
         Deletions |-> IF detail # <<>> THEN detail[1].Deletions ELSE 0,
         ReviewWaitHours |-> IF waitTime >= 0 THEN <<waitTime, 1>>
                             ELSE <<0, 1>> ]

\* The sum of the positive sizes from index i.
RECURSIVE totalSize(_, _)
totalSize(details, i) ==
    IF i > Len(details) THEN 0
    ELSE (IF details[i].Size > 0 THEN details[i].Size ELSE 0)
         + totalSize(details, i + 1)

\* calcAvgPRSize
calcAvgPRSize(details) ==
    LET count == Cardinality({ i \in 1..Len(details) :
                                 details[i].Size > 0 })
    IN IF count = 0 THEN 0 ELSE TruncDiv(totalSize(details, 1), count)

\* The sum of the positive ReviewWaitHours from index i.
RECURSIVE totalReviewWait(_, _)
totalReviewWait(details, i) ==
    IF i > Len(details) THEN <<0, 1>>
    ELSE IF RatGT(details[i].ReviewWaitHours, 0)
    THEN RatAdd(details[i].ReviewWaitHours, totalReviewWait(details, i + 1))
    ELSE totalReviewWait(details, i + 1)

\* calcAvgReviewWait
calcAvgReviewWait(details) ==
    LET count == Cardinality({ i \in 1..Len(details) :
                                 RatGT(details[i].ReviewWaitHours, 0) })
    IN IF count = 0 THEN <<0, 1>>
       ELSE RatDiv(totalReviewWait(details, 1), <<count, 1>>)

\* buildContributorDetails
buildContributorDetails(cons) ==
    LET totalCommits == totalContributions(cons, 1)
    IN [ i \in 1..Len(cons) |->
           [ Name |-> cons[i].Login,
             Commits |-> cons[i].Contributions,
             Ratio |-> IF totalCommits > 0
                       THEN RatMul(Ratio(cons[i].Contributions,
                                         totalCommits), 100)
                       ELSE <<0, 1>> ] ]

\* aggregateHourlyCommits: the [24]int array.
aggregateHourlyCommits(cs) ==
    [ h \in 0..23 |->
        Cardinality({ i \in 1..Len(cs) : Hour(cs[i].Date) = h }) ]

\* Time.Format("2006-01-02"): the calendar day of a time.
DateKey(t) == t \div 24

\* The loop of aggregateDailyCommits from the day that starts at current.
RECURSIVE dailyFrom(_, _, _)
dailyFrom(cs, current, to) ==
    IF current > to THEN <<>>
    ELSE << [ Date |-> current,
              Count |-> Cardinality({ i \in 1..Len(cs) :
                            DateKey(cs[i].Date) = DateKey(current) }) ] >>
         \o dailyFrom(cs, current + 24, to)

\* aggregateDailyCommits
aggregateDailyCommits(cs, p) == dailyFrom(cs, p.From, p.To)

\* Mutant of buildTrendDelta: a delta of exactly 5 already counts as "up".
buildTrendDelta_upAtFive(name, current, previous) ==
    LET deltaPct == IF RatGT(previous, 0)
                    THEN RatMul(RatDiv(RatSub(current, previous), previous),
                                100)
                    ELSE <<0, 1>>
    IN [ MetricName |-> name,
         CurrentValue |-> current,
         PreviousValue |-> previous,
         DeltaPct |-> deltaPct,
         Direction |-> IF RatGE(deltaPct, 5) THEN "up"
                       ELSE IF RatLT(deltaPct, -5) THEN "down"
                       ELSE "same" ]

\* buildTrendDelta
buildTrendDelta(name, current, previous) ==
    LET deltaPct == IF RatGT(previous, 0)
                    THEN RatMul(RatDiv(RatSub(current, previous), previous),
                                100)
                    ELSE <<0, 1>>
    IN [ MetricName |-> name,
         CurrentValue |-> current,
         PreviousValue |-> previous,
         DeltaPct |-> deltaPct,
         Direction |-> IF RatGT(deltaPct, 5) THEN "up"
                       ELSE IF RatLT(deltaPct, -5) THEN "down"
                       ELSE "same" ]

\* calculateTrends
calculateTrends(current, prevCs, prevIs, prevPeriod) ==
    LET prevCommitCount == Len(prevCs)
        prevDays == IF Days(prevPeriod) = 0 THEN 1 ELSE Days(prevPeriod)
        prevRate == Ratio(prevCommitCount, prevDays)
        prevIS == calculateIssueStats(prevIs, prevPeriod)
    IN << buildTrendDelta("trend_commit_count",
                          <<current.TotalCommits, 1>>,
                          <<prevCommitCount, 1>>),
          buildTrendDelta("trend_commit_frequency",
                          current.FeatureAdditionRate, prevRate),
          buildTrendDelta("trend_issue_close_rate",
                          current.IssueCloseRate, prevIS.CloseRate) >>

\* prevPeriod of Analyze: it ends one day before the period starts and
\* lasts Period.Days() days.
previousPeriod(p) ==
    LET prevTo == p.From - 24
        prevFrom == prevTo - 24 * Days(p)
    IN NewDateRange(prevFrom, prevTo)

(***************************************************************************)
(* Scoring specification: calculateCategoryScores on a risk list, then     *)
(* calculateOverallScore on its result; or calculateOverallScore on a      *)
(* category map given directly, as TestCalculateOverallScore does.         *)
(***************************************************************************)
MaxRisks == 3
MaxRepeat == 7

Severities == { SeverityLow, SeverityMedium, SeverityHigh }

CategorySet == { CategoryVelocity, CategoryQuality, CategoryTechDebt,
                 CategoryHealth }

\* Risk types used in the generated risk lists: every category, two types in
\* Quality and in Health, and "abandoned", a value outside the const block.
ProbeTypes ==
    { RiskTypeSlowLeadTime, RiskTypeChangeConcentration,
      RiskTypeHighChangeFailure, RiskTypeLargeFile, RiskTypeLateNight,
      RiskTypeOwnership, "abandoned" }

\* Risks as the unit tests build them: Type and Severity only.
ProbeRisks ==
    { NewRisk(t, s, <<>>, 0, 0) : t \in ProbeTypes, s \in Severities }

SeqsUpTo(S, n) == UNION { [1..k -> S] : k \in 0..n }

Repeat(x, n) == [ i \in 1..n |-> x ]

\* Every list of up to MaxRisks risks, and the lists made of up to MaxRepeat
\* copies of one risk after at most one other risk.
RiskInputs ==
    SeqsUpTo(ProbeRisks, MaxRisks)
    \cup { p \o Repeat(r, n) : p \in SeqsUpTo(ProbeRisks, 1),
                               r \in ProbeRisks, n \in 4..MaxRepeat }

\* Score values of the directly given maps.
DirectValues == { 0, 5, 60, 100 }

DirectMaps ==
    UNION { [ S -> { [ Category |-> "", Score |-> NewScore(v),
                       Diagnosis |-> <<>> ] : v \in DirectValues } ]
            : S \in SUBSET CategorySet }

zeroScore == [ Value |-> 0, Breakdown |-> <<>> ]

\* The variables of the scoring specification before any call.
IdleScore ==
    /\ risks = <<>>
    /\ categoryScores = <<>>
    /\ overallScore = zeroScore

\* The variables of the lookup specification before any call.
IdleLookup ==
    /\ argType = ""
    /\ argCat = ""
    /\ argScore = 0
    /\ argWorst = <<>>
    /\ retCategory = ""
    /\ retDiagnosis = <<>>

\* The variables of the DORA specification before any call.
IdleDora ==
    /\ period = [ From |-> 0, To |-> 0 ]
    /\ commits = <<>>
    /\ allIssues = <<>>
    /\ releases = <<>>
    /\ deployFreq = <<0, 1>>
    /\ deployRating = ""
    /\ cfr = <<0, 1>>
    /\ cfrRating = ""

\* The collaborator of a Service that is never asked anything.
noRepository ==
    [ commits |-> <<>>, contributors |-> <<>>, closedPRs |-> <<>>,
      openPRs |-> <<>>, allIssues |-> <<>>, openIssues |-> <<>>,
      files |-> <<>>, dependencies |-> <<>>, releases |-> <<>>,
      prevCommits |-> <<>>, prevIssues |-> <<>>,
      failing |-> {}, failDetail |-> {}, failReviews |-> {} ]

\* The local variables of Analyze before its first statement.
IdleLocals ==
    /\ contributors = <<>>
    /\ closedPRs = <<>>
    /\ openPRs = <<>>
    /\ openIssues = <<>>
    /\ files = <<>>
    /\ dependencies = <<>>
    /\ prevCommits = <<>>
    /\ prevIssues = <<>>
    /\ prDetails = <<>>
    /\ largeFiles = <<>>
    /\ outdatedDeps = <<>>
    /\ metrics = zeroMetrics
    /\ result = <<>>
    /\ err = <<>>

\* The variables of the Analyze specification before any call.
IdleAnalyze ==
    /\ repo = noRepository
    /\ IdleLocals
    /\ calls = <<>>
    /\ now = 0
    /\ run = 0
    /\ lastResult = <<>>
    /\ lastErr = <<>>
    /\ handled = <<>>

\* The variables of the metrics and trend specifications before any call.
IdleMetrics ==
    /\ avgLeadTime = <<0, 1>>
    /\ prBreakdown = <<>>
    /\ issueStats = <<>>
    /\ mttr = <<0, 1>>
    /\ mttrRating = ""
    /\ argCurrent = <<0, 1>>
    /\ argPrevious = <<0, 1>>
    /\ retTrend = <<>>
    /\ retTrends = <<>>

InitScore ==
    /\ IdleLookup
    /\ IdleDora
    /\ IdleAnalyze
    /\ IdleMetrics
    /\ overallScore = zeroScore
    /\ \/ /\ pc = "start"
          /\ risks \in RiskInputs
          /\ categoryScores = <<>>
       \/ /\ pc = "map"
          /\ risks = <<>>
          /\ categoryScores \in DirectMaps

\* categoryScores := s.calculateCategoryScores(risks)
CalcCategoryScores ==
    /\ pc = "start"
    /\ categoryScores' = calculateCategoryScores(risks)
    /\ pc' = "scored"
    /\ UNCHANGED <<risks, overallScore, varsLookup, varsDora, varsAnalyze,
                   varsMetrics>>

\* overallScore := calculateOverallScore(categoryScores)
CalcOverallScore ==
    /\ pc \in { "scored", "map" }
    /\ overallScore' = calculateOverallScore(categoryScores)
    /\ pc' = IF pc = "scored" THEN "done" ELSE "mapdone"
    /\ UNCHANGED <<risks, categoryScores, varsLookup, varsDora,
                   varsAnalyze, varsMetrics>>

NextScore == CalcCategoryScores \/ CalcOverallScore

SpecScore == InitScore /\ [][NextScore]_vars

(***************************************************************************)
(* Counting risks of a category, independently of the scoring loop.        *)
(***************************************************************************)
IndicesOf(rs, cat) == { i \in 1..Len(rs) : Category(rs[i].Type) = cat }

CountOf(rs, cat, sev) ==
    Cardinality({ i \in IndicesOf(rs, cat) : rs[i].Severity = sev })

PenaltySum(rs, cat) ==
    0 - 15 * CountOf(rs, cat, SeverityHigh)
      - 10 * CountOf(rs, cat, SeverityMedium)
      - 5 * CountOf(rs, cat, SeverityLow)

Max(a, b) == IF a >= b THEN a ELSE b

Scored == pc \in { "scored", "done" }

\* C2: every category score and the overall score has Value in [0,100], and
\* a category whose penalties sum below -100 has Value 0.
C2_ScoresClamped ==
    /\ Scored =>
         \A cat \in DOMAIN categoryScores :
            /\ categoryScores[cat].Score.Value \in 0..100
            /\ PenaltySum(risks, cat) < -100
                 => categoryScores[cat].Score.Value = 0
    /\ pc \in { "done", "mapdone" } => overallScore.Value \in 0..100

C2_Witness ==
    /\ pc = "done"
    /\ \E cat \in DOMAIN categoryScores :
          /\ PenaltySum(risks, cat) < -100
          /\ categoryScores[cat].Score.Value = 0

\* C3: the score of category C is max(0, 100 - 15h - 10m - 5l) for the h
\* high, m medium and l low risks whose type maps to C; a category without
\* risks scores 100.
C3_CategoryScoreFormula ==
    Scored =>
      \A cat \in CategorySet :
         /\ cat \in DOMAIN categoryScores
         /\ categoryScores[cat].Score.Value
              = Max(0, 100 + PenaltySum(risks, cat))
         /\ IndicesOf(risks, cat) = {}
              => categoryScores[cat].Score.Value = 100

C3_Witness ==
    /\ pc = "scored"
    /\ \E c1, c2 \in CategorySet :
          /\ c1 # c2
          /\ CountOf(risks, c1, SeverityHigh) > 0
          /\ CountOf(risks, c1, SeverityMedium) > 0
          /\ CountOf(risks, c2, SeverityLow) > 0
          /\ categoryScores[c1].Score.Value = 75
          /\ categoryScores[c2].Score.Value = 95

\* The first risk, in list order, among the risks of cat with the largest
\* penalty magnitude (0 when the category has no penalised risk).
FirstWorstIndex(rs, cat) ==
    LET idx == { i \in IndicesOf(rs, cat) : rs[i].Severity \in Severities }
        worst == { i \in idx :
                     \A j \in idx : rs[j].Severity <= rs[i].Severity }
    IN IF worst = {} THEN 0
       ELSE CHOOSE i \in worst : \A j \in worst : i <= j

\* The diagnosis text that belongs to a risk type.
DiagnosisOfType(t) ==
    IF t \in RiskTypes THEN <<"diag", t>> ELSE <<"diag_improve">>

\* The worst risk the scoring loop ends with for cat.
worstRiskOf(rs, cat) ==
    categoryLoop(rs, 1, cat,
      [ score |-> baseScore, breakdown |-> <<>>, worstRisk |-> <<>>,
        worstPoints |-> 0 ]).worstRisk

\* C4: the worst risk of a category is the first risk in list order among
\* its risks with the largest penalty; a later risk of equal penalty does
\* not replace it; a category graded below A has the diagnosis of that
\* risk's type.
C4_WorstRiskFirstSeen ==
    Scored =>
      \A cat \in CategorySet :
         LET w == FirstWorstIndex(risks, cat)
         IN /\ w = 0 => worstRiskOf(risks, cat) = <<>>
            /\ w # 0 => worstRiskOf(risks, cat) = <<risks[w]>>
            /\ Grade(categoryScores[cat].Score) # "A"
                 => /\ w # 0
                    /\ categoryScores[cat].Diagnosis
                         = DiagnosisOfType(risks[w].Type)

C4_Witness ==
    /\ pc = "scored"
    /\ \E cat \in CategorySet :
          LET w == FirstWorstIndex(risks, cat)
          IN /\ Grade(categoryScores[cat].Score) # "A"
             /\ w # 0
             /\ \E j \in IndicesOf(risks, cat) :
                   /\ j > w
                   /\ risks[j].Severity = risks[w].Severity
                   /\ risks[j].Type # risks[w].Type
             /\ categoryScores[cat].Diagnosis = <<"diag", risks[w].Type>>

\* C6 as stated: exactly the four categories, the overall score is the
\* truncated mean of the four values, and calculateOverallScore returns 0
\* only for an empty category map.
C6_Original ==
    /\ Scored => DOMAIN categoryScores = CategorySet
    /\ pc = "done" =>
         overallScore.Value = totalValue(categoryScores, CategorySet) \div 4
    /\ (pc \in { "done", "mapdone" } /\ overallScore.Value = 0)
         => DOMAIN categoryScores = {}

\* C6 amended: exactly the four categories, the overall score is the
\* truncated mean of the values of the map, and calculateOverallScore
\* returns 0 exactly for an empty map and for a map whose values sum to less
\* than its number of entries.
C6_OverallTruncatedMean ==
    /\ Scored => DOMAIN categoryScores = CategorySet
    /\ pc = "done" =>
         /\ 4 * overallScore.Value <= totalValue(categoryScores, CategorySet)
         /\ totalValue(categoryScores, CategorySet)
              < 4 * (overallScore.Value + 1)
    /\ pc \in { "done", "mapdone" } =>
         LET n == Cardinality(DOMAIN categoryScores)
             t == totalValue(categoryScores, DOMAIN categoryScores)
         IN /\ n = 0 => overallScore.Value = 0
            /\ n > 0 => (overallScore.Value = 0 <=> t < n)
            /\ n > 0 => /\ n * overallScore.Value <= t
                        /\ t < n * (overallScore.Value + 1)

C6_Witness ==
    /\ pc = "mapdone"
    /\ DOMAIN categoryScores = CategorySet
    /\ overallScore.Value = 0

(***************************************************************************)
(* Lookup specification: RiskType.Category and generateDiagnosis applied   *)
(* to arguments given directly, as TestRiskTypeCategory and                *)
(* TestGenerateDiagnosis do.                                               *)
(***************************************************************************)
ScoreMargin == 5

\* The const block and three values outside it: a type of an earlier
\* version, the test's unknown type, the zero value.
ArgTypes == RiskTypes \cup { "abandoned", "unknown_type", "" }

ArgWorsts ==
    { <<>> } \cup { <<NewRisk(t, SeverityMedium, <<>>, 0, 0)>> : t \in ArgTypes }

InitLookup ==
    /\ IdleScore
    /\ IdleDora
    /\ IdleAnalyze
    /\ IdleMetrics
    /\ pc = "lookup"
    /\ argType \in ArgTypes
    /\ argCat \in CategorySet
    /\ argScore \in (0 - ScoreMargin)..(100 + ScoreMargin)
    /\ argWorst \in { w \in ArgWorsts : w = <<>> \/ w[1].Type = argType }
    /\ retCategory = ""
    /\ retDiagnosis = <<>>

\* retCategory := argType.Category()
CallCategory ==
    /\ pc = "lookup"
    /\ retCategory' = Category(argType)
    /\ pc' = "categorized"
    /\ UNCHANGED <<varsScore, varsDora, varsAnalyze, varsMetrics, argType,
                   argCat, argScore, argWorst,
                   retDiagnosis>>

\* retDiagnosis := generateDiagnosis(argCat, domain.NewScore(argScore), argWorst)
CallDiagnosis ==
    /\ pc = "categorized"
    /\ retDiagnosis' = generateDiagnosis(argCat, NewScore(argScore), argWorst)
    /\ pc' = "diagnosed"
    /\ UNCHANGED <<varsScore, varsDora, varsAnalyze, varsMetrics, argType,
                   argCat, argScore, argWorst,
                   retCategory>>

NextLookup == CallCategory \/ CallDiagnosis

SpecLookup == InitLookup /\ [][NextLookup]_vars

\* C5: a score of at least 80 after clamping (grade A) gives the generic
\* good-state diagnosis whatever the worst risk is, and so does a missing
\* worst risk whatever the score is.
C5_GradeAGenericDiagnosis ==
    pc = "diagnosed" =>
      /\ (argScore >= 80) => retDiagnosis = <<"diag_good">>
      /\ (argWorst = <<>>) => retDiagnosis = <<"diag_good">>

C5_Witness ==
    /\ pc = "diagnosed"
    /\ argScore >= 80
    /\ argWorst # <<>>
    /\ argWorst[1].Type = RiskTypeLateNight
    /\ retDiagnosis = <<"diag_good">>

\* The expected category of each risk type (TestRiskTypeCategory).
ExpectedCategory(t) ==
    CASE t = RiskTypeSlowLeadTime -> CategoryVelocity
      [] t = RiskTypeSlowReview -> CategoryVelocity
      [] t = RiskTypeLowDeployFreq -> CategoryVelocity
      [] t = RiskTypeSlowRecovery -> CategoryVelocity
      [] t = RiskTypeChangeConcentration -> CategoryQuality
      [] t = RiskTypeLargePR -> CategoryQuality
      [] t = RiskTypeLowIssueClose -> CategoryQuality
      [] t = RiskTypeBugFixHigh -> CategoryQuality
      [] t = RiskTypeHighChangeFailure -> CategoryQuality
      [] t = RiskTypeLargeFile -> CategoryTechDebt
      [] t = RiskTypeOutdatedDeps -> CategoryTechDebt
      [] t = RiskTypeLowFeatureInvestment -> CategoryTechDebt
      [] t = RiskTypeLateNight -> CategoryHealth
      [] t = RiskTypeOwnership -> CategoryHealth

\* C7: Category gives each of the 14 risk types exactly the one category of
\* the lookup table, and gives Quality to every other value.
C7_CategoryTotal ==
    pc \in { "categorized", "diagnosed" } =>
      /\ Cardinality(RiskTypes) = 14
      /\ retCategory \in CategorySet
      /\ argType \in RiskTypes => retCategory = ExpectedCategory(argType)
      /\ argType \notin RiskTypes => retCategory = CategoryQuality

C7_Witness ==
    /\ pc = "categorized"
    /\ argType = RiskTypeLowFeatureInvestment
    /\ retCategory = CategoryTechDebt

(***************************************************************************)
(* DORA specification: the DORA part of calculateMetrics on a period, a    *)
(* release list, an issue list and a commit list.                          *)
(***************************************************************************)
MaxReleases == 2
MaxIssues == 2
MaxCommits == 2
MaxDeploys == 20
MaxReverts == 9

\* Start of every generated period, and the period lengths in hours
\* (0, 0, 1, 15, 30 and 60 days).
PeriodFrom == 48
PeriodHours == { 0, 12, 24, 360, 720, 1440 }

Periods == { NewDateRange(PeriodFrom, PeriodFrom + h) : h \in PeriodHours }

\* The instants just outside and on the two bounds of a period.
EdgeTimes(p) == { p.From - 1, p.From, p.To, p.To + 1 }

Release(t) == [ PublishedAt |-> t ]

Issue(created, labels) ==
    [ CreatedAt |-> created, ClosedAt |-> <<>>, Labels |-> labels ]

Commit(message) == [ Date |-> 0, Message |-> message, Files |-> <<>> ]

LabelBug == <<"b", "u", "g">>
LabelBugCapital == <<"B", "u", "g">>
LabelHotfixUpper == <<"H", "O", "T", "F", "I", "X">>
LabelIncident == <<"i", "n", "c", "i", "d", "e", "n", "t">>
LabelDocs == <<"d", "o", "c", "s">>
LabelBugs == <<"b", "u", "g", "s">>

\* No label, one failure label, two failure labels, a failure label after
\* another label, and labels that only resemble a failure label.
LabelLists ==
    { <<>>, <<LabelBug>>, <<LabelBugCapital, LabelHotfixUpper>>,
      <<LabelDocs, LabelIncident>>, <<LabelBugs, LabelDocs>> }

IssueKinds(p) ==
    { Issue(t, ls) : t \in { p.From, p.To }, ls \in LabelLists }
    \cup { Issue(t, <<LabelBug>>) : t \in { p.From - 1, p.To + 1 } }

MessageRevert == <<"R", "e", "v", "e", "r", "t", " ", "x">>
MessageLowerRevert == <<"r", "e", "v", "e", "r", "t", " ", "x">>
MessageReverted == <<"R", "e", "v", "e", "r", "t", "e", "d">>

CommitKinds ==
    { Commit(MessageRevert), Commit(MessageLowerRevert),
      Commit(MessageReverted) }

InitDora ==
    /\ IdleScore
    /\ IdleLookup
    /\ IdleAnalyze
    /\ IdleMetrics
    /\ pc = "dora"
    /\ deployFreq = <<0, 1>>
    /\ deployRating = ""
    /\ cfr = <<0, 1>>
    /\ cfrRating = ""
    /\ \/ /\ period = NewDateRange(PeriodFrom, PeriodFrom + 720)
          /\ releases \in SeqsUpTo({ Release(t) : t \in EdgeTimes(period) },
                                   MaxReleases)
          /\ allIssues \in SeqsUpTo(IssueKinds(period), MaxIssues)
          /\ commits \in SeqsUpTo(CommitKinds, MaxCommits)
       \/ /\ period \in Periods
          /\ releases \in
               { Repeat(Release(t), n) \o out :
                   t \in { period.From, period.To }, n \in 0..MaxDeploys,
                   out \in { <<>>, <<Release(period.From - 1)>>,
                             <<Release(period.To + 1)>> } }
          /\ allIssues \in { <<>>, <<Issue(period.From, <<LabelBug>>)>> }
          /\ commits \in { Repeat(Commit(MessageRevert), n) :
                             n \in 0..MaxReverts }

\* deployFreq, deployRating := s.calculateDeployFrequency(in.releases, in.period)
CalcDeployFrequency ==
    /\ pc = "dora"
    /\ LET r == calculateDeployFrequency(releases, period)
       IN /\ deployFreq' = r[1]
          /\ deployRating' = r[2]
    /\ pc' = "deployFreq"
    /\ UNCHANGED <<varsScore, varsLookup, varsAnalyze, varsMetrics, period,
                   commits, allIssues,
                   releases, cfr, cfrRating>>

\* cfr, cfrRating := s.calculateChangeFailureRate(in.allIssues, in.releases,
\*                                                in.commits, in.period)
CalcChangeFailureRate ==
    /\ pc = "deployFreq"
    /\ LET r == calculateChangeFailureRate(allIssues, releases, commits,
                                           period)
       IN /\ cfr' = r[1]
          /\ cfrRating' = r[2]
    /\ pc' = "changeFail"
    /\ UNCHANGED <<varsScore, varsLookup, varsAnalyze, varsMetrics, period,
                   commits, allIssues,
                   releases, deployFreq, deployRating>>

NextDora == CalcDeployFrequency \/ CalcChangeFailureRate

SpecDora == InitDora /\ [][NextDora]_vars

(***************************************************************************)
(* Counting, independently of the loops of the code.                       *)
(***************************************************************************)
ReleasesInside(rels, p) ==
    Cardinality({ i \in 1..Len(rels) :
                    p.From <= rels[i].PublishedAt
                    /\ rels[i].PublishedAt <= p.To })

FailureLabels == { LabelBug, LabelIncident, <<"h", "o", "t", "f", "i", "x">> }

FailureIssuesInside(issues, p) ==
    Cardinality({ i \in 1..Len(issues) :
                    /\ p.From <= issues[i].CreatedAt
                    /\ issues[i].CreatedAt <= p.To
                    /\ \E k \in 1..Len(issues[i].Labels) :
                          ToLower(issues[i].Labels[k]) \in FailureLabels })

RevertCommits(cs) ==
    Cardinality({ i \in 1..Len(cs) :
                    /\ Len(cs[i].Message) >= 7
                    /\ SubSeq(cs[i].Message, 1, 7)
                         = <<"R", "e", "v", "e", "r", "t", " ">> })

PeriodDays(p) == IF Days(p) = 0 THEN 1 ELSE Days(p)

DeployFreqDone == pc \in { "deployFreq", "changeFail" }

\* C8 as stated: with no release published inside the period, whether the
\* list is empty or not, calculateDeployFrequency returns frequency 0 and
\* rating "N/A", never "Low".
C8_NoReleaseInsideIsNA ==
    (DeployFreqDone /\ ReleasesInside(releases, period) = 0)
      => /\ deployFreq[1] = 0
         /\ deployRating = "N/A"

\* The band of a frequency of n releases in d days, 30 * n / d per month.
FreqBand(n, d) ==
    IF 30 * n >= 30 * d THEN "Elite"
    ELSE IF 30 * n >= 4 * d THEN "High"
    ELSE IF 30 * n >= 1 * d THEN "Medium"
    ELSE "Low"

FailBand(f, n) ==
    IF 100 * f <= 15 * n THEN "Elite"
    ELSE IF 100 * f <= 30 * n THEN "High"
    ELSE IF 100 * f <= 45 * n THEN "Medium"
    ELSE "Low"

\* C10: the change-failure rate is (issues created inside the period with a
\* bug, incident or hotfix label, each counted once, plus revert commits)
\* divided by the releases inside the period, times 100; with no release
\* inside the period it is 0 with rating "N/A"; otherwise the rating is
\* Elite up to 15, High up to 30, Medium up to 45, else Low.
C10_ChangeFailureRate ==
    pc = "changeFail" =>
      LET n == ReleasesInside(releases, period)
          f == FailureIssuesInside(allIssues, period) + RevertCommits(commits)
      IN /\ n = 0 => (cfr[1] = 0 /\ cfrRating = "N/A")
         /\ n > 0 => /\ cfr[1] * n = 100 * f * cfr[2]
                     /\ cfrRating = FailBand(f, n)

C10_Witness ==
    /\ pc = "changeFail"
    /\ ReleasesInside(releases, period) = 1
    /\ Len(releases) = 2
    /\ \E i \in 1..Len(allIssues) :
          /\ allIssues[i].Labels = <<LabelBugCapital, LabelHotfixUpper>>
          /\ allIssues[i].CreatedAt = period.To
    /\ Len(allIssues) = 1
    /\ RevertCommits(commits) = 1
    /\ Len(commits) = 2
    /\ cfr = <<200, 1>>
    /\ cfrRating = "Low"

(***************************************************************************)
(* Analyze specification: Service.Analyze called on a collaborator with    *)
(* fixed answers, then called again with the same input.                   *)
(***************************************************************************)
MaxRuns == 2
MaxFailures == 2

\* One call received by the collaborator.
Call(op, state, arg) == [ Op |-> op, State |-> state, Arg |-> arg ]

\* The error the collaborator returns for a failing call.
ErrorOf(stage) == <<"error", stage>>

\* fmt.Errorf(text + ": %w", cause): the text the caller adds, then the
\* message of the cause.
Wrap(text, cause) == <<text>> \o cause

\* The answers of GetPRDetail and GetPRReviews for pull request n: nothing
\* when the call fails.
DetailAnswer(n) ==
    IF n \in repo.failDetail THEN <<>> ELSE <<repo.prDetail[n]>>

ReviewsAnswer(n) ==
    IF n \in repo.failReviews THEN <<>> ELSE repo.prReviews[n]

\* The calls buildPRDetails makes for the processed pull requests.
RECURSIVE detailCalls(_, _)
detailCalls(processed, i) ==
    IF i > Len(processed) THEN <<>>
    ELSE << Call("GetPRDetail", "", <<processed[i].Number>>),
            Call("GetPRReviews", "", <<processed[i].Number>>) >>
         \o detailCalls(processed, i + 1)

\* The records the collaborator answers with.
CommitAt(date, message, changed) ==
    [ Date |-> date, Message |-> message, Files |-> changed ]

Contributor(login, contributions) ==
    [ Login |-> login, Contributions |-> contributions ]

PullRequest(number, branch, createdAt, mergedAt) ==
    [ Number |-> number, Title |-> "title", Author |-> "author",
      HeadBranch |-> branch, CreatedAt |-> createdAt, MergedAt |-> mergedAt ]

ClosedIssue(created, labels, closed) ==
    [ CreatedAt |-> created, Labels |-> labels, ClosedAt |-> <<closed>> ]

File(path, size) == [ Path |-> path, Size |-> size ]

Dependency(name, version, ageMonths) ==
    [ Name |-> name, Version |-> version, AgeMonths |-> ageMonths ]

Review(submittedAt) == [ SubmittedAt |-> submittedAt ]

MessagePlain == <<"f", "i", "x">>
BranchFeature == <<"f", "e", "a", "t", "u", "r", "e", "/", "x">>
BranchFixCapital == <<"F", "i", "x", "/", "y">>
BranchChore == <<"c", "h", "o", "r", "e", "/", "z">>
BranchOther == <<"m", "i", "s", "c">>

\* Day time and night time of the first day of the period.
Noon == PeriodFrom + 10
Night == PeriodFrom + 23

\* More merged pull requests than buildPRDetails processes.
ManyPRs == maxPRDetailsCount + 2

\* Two files over the warning threshold of change concentration.
WarmCommits ==
    Repeat(CommitAt(Noon, MessagePlain, <<"a.go", "b.go">>),
           changeConcentrationWarning)
      \o Repeat(CommitAt(Noon, MessagePlain, <<"b.go">>), 2)

\* Three files over a threshold, most commits at night and reverts.
HotCommits ==
    Repeat(CommitAt(Night, MessageRevert, <<"a.go", "b.go">>),
           changeConcentrationCritical)
      \o Repeat(CommitAt(Noon, MessagePlain, <<"b.go", "c.go">>),
                changeConcentrationWarning)

CommitWorlds ==
    { <<>>, WarmCommits, HotCommits,
      << CommitAt(Noon, MessagePlain, <<"a.go">>) >> }

OwnedContributors == << Contributor("alice", 9), Contributor("bob", 1) >>

ContributorWorlds ==
    { <<>>, OwnedContributors,
      << Contributor("alice", 1), Contributor("bob", 1) >> }

MixedPRs ==
    << PullRequest(1, BranchFeature, Noon, <<Noon + 10>>),
       PullRequest(2, BranchFixCapital, Noon, <<Noon + 720>>),
       PullRequest(3, BranchChore, Noon, <<>>),
       PullRequest(4, BranchOther, Noon, <<Noon + 40>>) >>

ClosedPRWorlds ==
    { <<>>, MixedPRs,
      [ n \in 1..ManyPRs |->
          PullRequest(n, BranchFixCapital, Noon, <<Noon + n>>) ] }

\* Issues with a history: closed failures now, issues and a commit in the
\* previous period.
BusyIssues ==
    [ allIssues |->
        << ClosedIssue(Noon, <<LabelBugCapital>>, Noon + 48),
           Issue(Noon, <<LabelDocs>>),
           ClosedIssue(PeriodFrom - 1, <<LabelIncident>>, PeriodFrom + 5) >>,
      openIssues |-> << Issue(Noon, <<LabelDocs>>) >>,
      prevCommits |-> << CommitAt(PeriodFrom - 30, MessagePlain,
                                  <<"a.go">>) >>,
      prevIssues |-> << ClosedIssue(PeriodFrom - 30, <<LabelDocs>>,
                                    PeriodFrom - 29),
                        Issue(PeriodFrom - 30, <<LabelDocs>>) >> ]

\* allIssues, openIssues, prevCommits and prevIssues of one collaborator.
IssueWorlds ==
    { [ allIssues |-> <<>>, openIssues |-> <<>>, prevCommits |-> <<>>,
        prevIssues |-> <<>> ],
      BusyIssues,
      [ allIssues |-> << Issue(Noon, <<LabelDocs>>),
                         Issue(Noon + 1, <<LabelBug>>) >>,
        openIssues |-> << Issue(Noon, <<LabelDocs>>),
                          Issue(Noon + 1, <<LabelBug>>) >>,
        prevCommits |-> <<>>,
        prevIssues |-> <<>> ] }

\* Large files, old dependencies, a release and an open pull request.
RichAssets ==
    [ files |-> << File("big.bin", 2 * largeFileCriticalBytes),
                   File("mid.js", largeFileWarningBytes),
                   File("small.go", 100) >>,
      dependencies |->
        << Dependency("old", "1.0", outdatedDepCriticalMonths + 4),
           Dependency("mid", "2.0", outdatedDepWarningMonths),
           Dependency("new", "3.0", 3) >>,
      releases |-> << Release(Noon) >>,
      openPRs |-> << PullRequest(30, BranchFeature, Noon, <<>>) >> ]

\* files, dependencies, releases and openPRs of one collaborator.
AssetWorlds ==
    { [ files |-> <<>>, dependencies |-> <<>>, releases |-> <<>>,
        openPRs |-> <<>> ],
      RichAssets }

\* The answers to the calls of buildPRDetails.
prDetailAnswers ==
    [ n \in 1..ManyPRs |-> [ Additions |-> 600 * (n % 3), Deletions |-> n ] ]

prReviewAnswers ==
    [ n \in 1..ManyPRs |->
        IF n % 2 = 1
        THEN << Review(Noon + 100 * n), Review(Noon + 60) >>
        ELSE <<>> ]

\* The collaborator made of one choice of each answer.
Repository(cs, cons, prs, iw, aw, failing, failDetail, failReviews) ==
    [ commits |-> cs, contributors |-> cons, closedPRs |-> prs,
      openPRs |-> aw.openPRs,
      allIssues |-> iw.allIssues,
      openIssues |-> iw.openIssues,
      files |-> aw.files,
      dependencies |-> aw.dependencies,
      releases |-> aw.releases,
      prevCommits |-> iw.prevCommits,
      prevIssues |-> iw.prevIssues,
      prDetail |-> prDetailAnswers,
      prReviews |-> prReviewAnswers,
      failing |-> failing,
      failDetail |-> failDetail,
      failReviews |-> failReviews ]

\* The calls of Analyze that can fail, by the variable they fill.
Stages ==
    { "commits", "contributors", "closedPRs", "openPRs", "allIssues",
      "openIssues", "files", "dependencies", "releases", "prevCommits",
      "prevIssues" }

\* The fetches whose failure Analyze logs and survives.
ToleratedStages == { "releases", "prevCommits", "prevIssues" }

AnalyzePeriodHours == { 12, 36, 720, 1440 }

\* A collaborator that answers every call.
HealthyRepositories ==
    { Repository(cs, cons, prs, iw, aw, {}, {}, {}) :
        cs \in CommitWorlds, cons \in ContributorWorlds,
        prs \in ClosedPRWorlds, iw \in IssueWorlds, aw \in AssetWorlds }

\* The collaborator with the fullest answers.
FullRepository(failing, failDetail, failReviews) ==
    Repository(HotCommits, OwnedContributors, MixedPRs, BusyIssues,
               RichAssets, failing, failDetail, failReviews)

\* Collaborators of which up to MaxFailures calls fail, or the detail and
\* review calls of some pull requests.
FailingRepositories ==
    { FullRepository(failing, {}, {}) :
        failing \in { S \in SUBSET Stages : Cardinality(S) <= MaxFailures } }
    \cup { FullRepository({}, failDetail, failReviews) :
             failDetail \in { {}, {2}, 1..ManyPRs },
             failReviews \in { {}, {1}, 1..ManyPRs } }
    \cup { FullRepository(ToleratedStages, {2}, {1}) }

InitAnalyze ==
    /\ pc = "GetCommits"
    /\ IdleScore
    /\ IdleLookup
    /\ commits = <<>>
    /\ allIssues = <<>>
    /\ releases = <<>>
    /\ deployFreq = <<0, 1>>
    /\ deployRating = ""
    /\ cfr = <<0, 1>>
    /\ cfrRating = ""
    /\ IdleLocals
    /\ calls = <<>>
    /\ now = 1
    /\ run = 1
    /\ lastResult = <<>>
    /\ lastErr = <<>>
    /\ handled = <<>>
    /\ IdleMetrics
    /\ \/ /\ repo \in HealthyRepositories
          /\ period \in { NewDateRange(PeriodFrom, PeriodFrom + h) :
                            h \in AnalyzePeriodHours }
       \/ /\ repo \in FailingRepositories
          /\ period = NewDateRange(PeriodFrom, PeriodFrom + 720)

\* commits, err := s.repo.GetCommits(ctx, input.Repository, input.Period)
\* and the return of the error when the call fails.
GetCommits ==
    /\ pc = "GetCommits"
    /\ calls' = Append(calls, Call("GetCommits", "",
                              <<period.From, period.To>>))
    /\ IF "commits" \in repo.failing
       THEN /\ err' = ErrorOf("commits")
            /\ result' = <<>>
            /\ pc' = "returned"
            /\ UNCHANGED commits
       ELSE /\ commits' = repo.commits
            /\ pc' = "GetContributors"
            /\ UNCHANGED <<err, result>>
    /\ UNCHANGED <<varsLookup, varsMetrics, deployFreq, deployRating, cfr,
                   cfrRating, risks, categoryScores, overallScore, period,
                   allIssues, releases, repo, contributors, closedPRs,
                   openPRs, openIssues, files, dependencies, prevCommits,
                   prevIssues, prDetails, largeFiles, outdatedDeps, metrics,
                   now, run, lastResult, lastErr, handled>>

\* contributors, err := s.repo.GetContributors(ctx, input.Repository)
\* and the return of the error when the call fails.
GetContributors ==
    /\ pc = "GetContributors"
    /\ calls' = Append(calls, Call("GetContributors", "",
                              <<>>))
    /\ IF "contributors" \in repo.failing
       THEN /\ err' = ErrorOf("contributors")
            /\ result' = <<>>
            /\ pc' = "returned"
            /\ UNCHANGED contributors
       ELSE /\ contributors' = repo.contributors
            /\ pc' = "GetClosedPRs"
            /\ UNCHANGED <<err, result>>
    /\ UNCHANGED <<varsLookup, varsMetrics, deployFreq, deployRating, cfr,
                   cfrRating, risks, categoryScores, overallScore, period,
                   commits, allIssues, releases, repo, closedPRs, openPRs,
                   openIssues, files, dependencies, prevCommits, prevIssues,
                   prDetails, largeFiles, outdatedDeps, metrics, now, run,
                   lastResult, lastErr, handled>>

\* Mutant of GetClosedPRs: a failure is tolerated, Analyze goes on with no
\* closed pull request.
GetClosedPRs_tolerant ==
    /\ pc = "GetClosedPRs"
    /\ calls' = Append(calls, Call("GetPullRequests", "closed",
                              <<>>))
    /\ closedPRs' = IF "closedPRs" \in repo.failing THEN <<>>
                    ELSE repo.closedPRs
    /\ pc' = "GetOpenPRs"
    /\ UNCHANGED <<err, result>>
    /\ UNCHANGED <<varsLookup, varsMetrics, deployFreq, deployRating, cfr,
                   cfrRating, risks, categoryScores, overallScore, period,
                   commits, allIssues, releases, repo, contributors, openPRs,
                   openIssues, files, dependencies, prevCommits, prevIssues,
                   prDetails, largeFiles, outdatedDeps, metrics, now, run,
                   lastResult, lastErr, handled>>

\* closedPRs, err := s.repo.GetPullRequests(ctx, input.Repository, "closed")
\* and the return of the error when the call fails.
GetClosedPRs ==
    /\ pc = "GetClosedPRs"
    /\ calls' = Append(calls, Call("GetPullRequests", "closed",
                              <<>>))
    /\ IF "closedPRs" \in repo.failing
       THEN /\ err' = ErrorOf("closedPRs")
            /\ result' = <<>>
            /\ pc' = "returned"
            /\ UNCHANGED closedPRs
       ELSE /\ closedPRs' = repo.closedPRs
            /\ pc' = "GetOpenPRs"
            /\ UNCHANGED <<err, result>>
    /\ UNCHANGED <<varsLookup, varsMetrics, deployFreq, deployRating, cfr,
                   cfrRating, risks, categoryScores, overallScore, period,
                   commits, allIssues, releases, repo, contributors, openPRs,
                   openIssues, files, dependencies, prevCommits, prevIssues,
                   prDetails, largeFiles, outdatedDeps, metrics, now, run,
                   lastResult, lastErr, handled>>

\* openPRs, err := s.repo.GetPullRequests(ctx, input.Repository, "open")
\* and the return of the error when the call fails.
GetOpenPRs ==
    /\ pc = "GetOpenPRs"
    /\ calls' = Append(calls, Call("GetPullRequests", "open",
                              <<>>))
    /\ IF "openPRs" \in repo.failing
       THEN /\ err' = ErrorOf("openPRs")
            /\ result' = <<>>
            /\ pc' = "returned"
            /\ UNCHANGED openPRs
       ELSE /\ openPRs' = repo.openPRs
            /\ pc' = "GetAllIssues"
            /\ UNCHANGED <<err, result>>
    /\ UNCHANGED <<varsLookup, varsMetrics, deployFreq, deployRating, cfr,
                   cfrRating, risks, categoryScores, overallScore, period,
                   commits, allIssues, releases, repo, contributors,
                   closedPRs, openIssues, files, dependencies, prevCommits,
                   prevIssues, prDetails, largeFiles, outdatedDeps, metrics,
                   now, run, lastResult, lastErr, handled>>

\* allIssues, err := s.repo.GetIssues(ctx, input.Repository, "all", &periodStart)
\* and the return of the error when the call fails.
GetAllIssues ==
    /\ pc = "GetAllIssues"
    /\ calls' = Append(calls, Call("GetIssues", "all",
                              <<period.From>>))
    /\ IF "allIssues" \in repo.failing
       THEN /\ err' = ErrorOf("allIssues")
            /\ result' = <<>>
            /\ pc' = "returned"
            /\ UNCHANGED allIssues
       ELSE /\ allIssues' = repo.allIssues
            /\ pc' = "GetOpenIssues"
            /\ UNCHANGED <<err, result>>
    /\ UNCHANGED <<varsLookup, varsMetrics, deployFreq, deployRating, cfr,
                   cfrRating, risks, categoryScores, overallScore, period,
                   commits, releases, repo, contributors, closedPRs, openPRs,
                   openIssues, files, dependencies, prevCommits, prevIssues,
                   prDetails, largeFiles, outdatedDeps, metrics, now, run,
                   lastResult, lastErr, handled>>

\* openIssues, err := s.repo.GetIssues(ctx, input.Repository, "open", nil)
\* and the return of the error when the call fails.
GetOpenIssues ==
    /\ pc = "GetOpenIssues"
    /\ calls' = Append(calls, Call("GetIssues", "open",
                              <<>>))
    /\ IF "openIssues" \in repo.failing
       THEN /\ err' = ErrorOf("openIssues")
            /\ result' = <<>>
            /\ pc' = "returned"
            /\ UNCHANGED openIssues
       ELSE /\ openIssues' = repo.openIssues
            /\ pc' = "GetFiles"
            /\ UNCHANGED <<err, result>>
    /\ UNCHANGED <<varsLookup, varsMetrics, deployFreq, deployRating, cfr,
                   cfrRating, risks, categoryScores, overallScore, period,
                   commits, allIssues, releases, repo, contributors,
                   closedPRs, openPRs, files, dependencies, prevCommits,
                   prevIssues, prDetails, largeFiles, outdatedDeps, metrics,
                   now, run, lastResult, lastErr, handled>>

\* Mutant of GetFiles: a failure is tolerated, Analyze goes on with no
\* file.
GetFiles_tolerant ==
    /\ pc = "GetFiles"
    /\ calls' = Append(calls, Call("GetFiles", "",
                              <<>>))
    /\ files' = IF "files" \in repo.failing THEN <<>> ELSE repo.files
    /\ pc' = "GetDependencies"
    /\ UNCHANGED <<err, result>>
    /\ UNCHANGED <<varsLookup, varsMetrics, deployFreq, deployRating, cfr,
                   cfrRating, risks, categoryScores, overallScore, period,
                   commits, allIssues, releases, repo, contributors,
                   closedPRs, openPRs, openIssues, dependencies, prevCommits,
                   prevIssues, prDetails, largeFiles, outdatedDeps, metrics,
                   now, run, lastResult, lastErr, handled>>

\* files, err := s.repo.GetFiles(ctx, input.Repository)
\* and the return of the error when the call fails.
GetFiles ==
    /\ pc = "GetFiles"
    /\ calls' = Append(calls, Call("GetFiles", "",
                              <<>>))
    /\ IF "files" \in repo.failing
       THEN /\ err' = ErrorOf("files")
            /\ result' = <<>>
            /\ pc' = "returned"
            /\ UNCHANGED files
       ELSE /\ files' = repo.files
            /\ pc' = "GetDependencies"
            /\ UNCHANGED <<err, result>>
    /\ UNCHANGED <<varsLookup, varsMetrics, deployFreq, deployRating, cfr,
                   cfrRating, risks, categoryScores, overallScore, period,
                   commits, allIssues, releases, repo, contributors,
                   closedPRs, openPRs, openIssues, dependencies, prevCommits,
                   prevIssues, prDetails, largeFiles, outdatedDeps, metrics,
                   now, run, lastResult, lastErr, handled>>

\* dependencies, err := s.repo.GetDependencies(ctx, input.Repository)
\* and the return of the error when the call fails.
GetDependencies ==
    /\ pc = "GetDependencies"
    /\ calls' = Append(calls, Call("GetDependencies", "",
                              <<>>))
    /\ IF "dependencies" \in repo.failing
       THEN /\ err' = ErrorOf("dependencies")
            /\ result' = <<>>
            /\ pc' = "returned"
            /\ UNCHANGED dependencies
       ELSE /\ dependencies' = repo.dependencies
            /\ pc' = "GetReleases"
            /\ UNCHANGED <<err, result>>
    /\ UNCHANGED <<varsLookup, varsMetrics, deployFreq, deployRating, cfr,
                   cfrRating, risks, categoryScores, overallScore, period,
                   commits, allIssues, releases, repo, contributors,
                   closedPRs, openPRs, openIssues, files, prevCommits,
                   prevIssues, prDetails, largeFiles, outdatedDeps, metrics,
                   now, run, lastResult, lastErr, handled>>

\* Mutant of GetReleases: a failure ends Analyze with the error.
GetReleases_fatal ==
    /\ pc = "GetReleases"
    /\ calls' = Append(calls, Call("GetReleases", "",
                              <<>>))
    /\ IF "releases" \in repo.failing
       THEN /\ err' = ErrorOf("releases")
            /\ result' = <<>>
            /\ pc' = "returned"
            /\ UNCHANGED releases
       ELSE /\ releases' = repo.releases
            /\ pc' = "GetPrevCommits"
            /\ UNCHANGED <<err, result>>
    /\ UNCHANGED <<varsLookup, varsMetrics, deployFreq, deployRating, cfr,
                   cfrRating, risks, categoryScores, overallScore, period,
                   commits, allIssues, repo, contributors, closedPRs,
                   openPRs, openIssues, files, dependencies, prevCommits,
                   prevIssues, prDetails, largeFiles, outdatedDeps, metrics,
                   now, run, lastResult, lastErr, handled>>

\* releases, err := s.repo.GetReleases(ctx, input.Repository); a failure is
\* logged and leaves releases nil.
GetReleases ==
    /\ pc = "GetReleases"
    /\ calls' = Append(calls, Call("GetReleases", "",
                              <<>>))
    /\ releases' = IF "releases" \in repo.failing THEN <<>> ELSE repo.releases
    /\ pc' = "GetPrevCommits"
    /\ UNCHANGED <<varsLookup, varsMetrics, deployFreq, deployRating, cfr,
                   cfrRating, risks, categoryScores, overallScore, period,
                   commits, allIssues, repo, contributors, closedPRs,
                   openPRs, openIssues, files, dependencies, prevCommits,
                   prevIssues, prDetails, largeFiles, outdatedDeps, metrics,
                   result, err, now, run, lastResult, lastErr, handled>>

\* prevCommits, err := s.repo.GetCommits(ctx, input.Repository, prevPeriod); a
\* failure is logged and leaves prevCommits nil.
GetPrevCommits ==
    /\ pc = "GetPrevCommits"
    /\ calls' = Append(calls, Call("GetCommits", "",
                              <<previousPeriod(period).From, previousPeriod(period).To>>))
    /\ prevCommits' = IF "prevCommits" \in repo.failing THEN <<>> ELSE repo.prevCommits
    /\ pc' = "GetPrevIssues"
    /\ UNCHANGED <<varsLookup, varsMetrics, deployFreq, deployRating, cfr,
                   cfrRating, risks, categoryScores, overallScore, period,
                   commits, allIssues, releases, repo, contributors,
                   closedPRs, openPRs, openIssues, files, dependencies,
                   prevIssues, prDetails, largeFiles, outdatedDeps, metrics,
                   result, err, now, run, lastResult, lastErr, handled>>

\* prevIssues, err := s.repo.GetIssues(ctx, input.Repository, "all",
\* &prevPeriodStart); a failure is logged and leaves prevIssues nil.
GetPrevIssues ==
    /\ pc = "GetPrevIssues"
    /\ calls' = Append(calls, Call("GetIssues", "all",
                              <<previousPeriod(period).From>>))
    /\ prevIssues' = IF "prevIssues" \in repo.failing THEN <<>> ELSE repo.prevIssues
    /\ pc' = "BuildPRDetails"
    /\ UNCHANGED <<varsLookup, varsMetrics, deployFreq, deployRating, cfr,
                   cfrRating, risks, categoryScores, overallScore, period,
                   commits, allIssues, releases, repo, contributors,
                   closedPRs, openPRs, openIssues, files, dependencies,
                   prevCommits, prDetails, largeFiles, outdatedDeps, metrics,
                   result, err, now, run, lastResult, lastErr, handled>>

\* prDetails := s.buildPRDetails(ctx, input.Repository, closedPRs): one
\* GetPRDetail and one GetPRReviews call for each processed pull request.
BuildPRDetails ==
    /\ pc = "BuildPRDetails"
    /\ LET processed == processedPRs(closedPRs, 1, 0)
       IN /\ prDetails' =
                [ i \in 1..Len(processed) |->
                    prDetailOf(processed[i],
                               DetailAnswer(processed[i].Number),
                               ReviewsAnswer(processed[i].Number)) ]
          /\ calls' = calls \o detailCalls(processed, 1)
    /\ pc' = "DetectRisks"
    /\ UNCHANGED <<varsLookup, varsMetrics, deployFreq, deployRating, cfr,
                   cfrRating, risks, categoryScores, overallScore, period,
                   commits, allIssues, releases, repo, contributors,
                   closedPRs, openPRs, openIssues, files, dependencies,
                   prevCommits, prevIssues, largeFiles, outdatedDeps,
                   metrics, result, err, now, run, lastResult, lastErr,
                   handled>>

\* risks, largeFiles := s.detectRisks(commits, contributors, files), then
\* outdatedRisks, outdatedDeps := s.detectOutdatedDeps(dependencies) and the
\* append of outdatedRisks.  The range over the fileChanges map visits its
\* keys in an order the runtime chooses.
DetectRisks ==
    /\ pc = "DetectRisks"
    /\ \E order \in IterationOrders(DOMAIN fileChanges(commits)) :
         LET detected == detectRisks(commits, contributors, files, order)
             outdated == detectOutdatedDeps(dependencies)
         IN /\ risks' = detected[1] \o outdated[1]
            /\ largeFiles' = detected[2]
            /\ outdatedDeps' = outdated[2]
    /\ pc' = "CalculateMetrics"
    /\ UNCHANGED <<varsLookup, varsMetrics, deployFreq, deployRating, cfr,
                   cfrRating, categoryScores, overallScore, period, commits,
                   allIssues, releases, repo, contributors, closedPRs,
                   openPRs, openIssues, files, dependencies, prevCommits,
                   prevIssues, prDetails, metrics, result, err, calls, now,
                   run, lastResult, lastErr, handled>>

\* metrics := s.calculateMetrics(...) with the averages of calcAvgReviewWait
\* and calcAvgPRSize, then the append of s.detectMetricRisks(metrics).
CalculateMetrics ==
    /\ pc = "CalculateMetrics"
    /\ LET computed ==
             calculateMetrics(
               [ commits |-> commits, contributors |-> contributors,
                 closedPRs |-> closedPRs, openPRs |-> openPRs,
                 allIssues |-> allIssues, openIssues |-> openIssues,
                 files |-> files, releases |-> releases, period |-> period,
                 avgReviewWaitTime |-> calcAvgReviewWait(prDetails),
                 avgPRSize |-> calcAvgPRSize(prDetails) ])
       IN /\ metrics' = computed
          /\ risks' = risks \o detectMetricRisks(computed)
    /\ pc' = "CalculateScores"
    /\ UNCHANGED <<varsLookup, varsMetrics, deployFreq, deployRating, cfr,
                   cfrRating, categoryScores, overallScore, period, commits,
                   allIssues, releases, repo, contributors, closedPRs,
                   openPRs, openIssues, files, dependencies, prevCommits,
                   prevIssues, prDetails, largeFiles, outdatedDeps, result,
                   err, calls, now, run, lastResult, lastErr, handled>>

\* Mutant of CalculateScores: the scores are those of the risks found before
\* detectMetricRisks, none of which has the whole repository as target.
CalculateScores_beforeMetricRisks ==
    /\ pc = "CalculateScores"
    /\ LET early == SelectSeq(risks, LAMBDA r : r.Target # wholeRepository)
       IN /\ categoryScores' = calculateCategoryScores(early)
          /\ overallScore'
               = calculateOverallScore(calculateCategoryScores(early))
    /\ pc' = "Assemble"
    /\ UNCHANGED <<varsLookup, varsMetrics, deployFreq, deployRating, cfr,
                   cfrRating, risks, period, commits, allIssues, releases,
                   repo, contributors, closedPRs, openPRs, openIssues, files,
                   dependencies, prevCommits, prevIssues, prDetails,
                   largeFiles, outdatedDeps, metrics, result, err, calls,
                   now, run, lastResult, lastErr, handled>>

\* categoryScores := s.calculateCategoryScores(risks) and
\* overallScore := calculateOverallScore(categoryScores)
CalculateScores ==
    /\ pc = "CalculateScores"
    /\ categoryScores' = calculateCategoryScores(risks)
    /\ overallScore' = calculateOverallScore(calculateCategoryScores(risks))
    /\ pc' = "Assemble"
    /\ UNCHANGED <<varsLookup, varsMetrics, deployFreq, deployRating, cfr,
                   cfrRating, risks, period, commits, allIssues, releases,
                   repo, contributors, closedPRs, openPRs, openIssues, files,
                   dependencies, prevCommits, prevIssues, prDetails,
                   largeFiles, outdatedDeps, metrics, result, err, calls,
                   now, run, lastResult, lastErr, handled>>

\* The drill-down data, the trends and the return of the AnalysisResult.
Assemble ==
    /\ pc = "Assemble"
    /\ result' =
         << [ Period |-> period,
              CategoryScores |-> categoryScores,
              OverallScore |-> overallScore,
              Risks |-> risks,
              Metrics |-> metrics,
              DailyCommits |-> aggregateDailyCommits(commits, period),
              LargeFiles |-> largeFiles,
              OutdatedDeps |-> outdatedDeps,
              PRDetails |-> prDetails,
              ContributorDetails |-> buildContributorDetails(contributors),
              HourlyCommits |-> aggregateHourlyCommits(commits),
              Trends |-> calculateTrends(metrics, prevCommits, prevIssues,
                                         previousPeriod(period)),
              GeneratedAt |-> now ] >>
    /\ err' = <<>>
    /\ pc' = "returned"
    /\ UNCHANGED <<varsLookup, varsMetrics, deployFreq, deployRating, cfr,
                   cfrRating, risks, categoryScores, overallScore, period,
                   commits, allIssues, releases, repo, contributors,
                   closedPRs, openPRs, openIssues, files, dependencies,
                   prevCommits, prevIssues, prDetails, largeFiles,
                   outdatedDeps, metrics, calls, now, run, lastResult,
                   lastErr, handled>>

\* Handler.Handle after h.service.Analyze returned: an error is wrapped with
\* fmt.Errorf("analyze failed: %w", err), a result is handed on.
HandleReturn ==
    /\ pc = "returned"
    /\ handled' =
         << IF err # <<>>
            THEN [ result |-> <<>>, err |-> Wrap("analyze failed", err) ]
            ELSE [ result |-> result, err |-> <<>> ] >>
    /\ pc' = "handled"
    /\ UNCHANGED <<varsLookup, varsMetrics, deployFreq, deployRating, cfr,
                   cfrRating, risks, categoryScores, overallScore, period,
                   commits, allIssues, releases, repo, contributors,
                   closedPRs, openPRs, openIssues, files, dependencies,
                   prevCommits, prevIssues, prDetails, largeFiles,
                   outdatedDeps, metrics, result, err, calls, now, run,
                   lastResult, lastErr>>

\* The caller keeps what Analyze returned and calls it again, later, with
\* the same input on the same collaborator.
AnalyzeAgain ==
    /\ pc = "handled"
    /\ handled' = <<>>
    /\ run < MaxRuns
    /\ lastResult' = result
    /\ lastErr' = err
    /\ run' = run + 1
    /\ now' = now + 1
    /\ pc' = "GetCommits"
    /\ calls' = <<>>
    /\ risks' = <<>>
    /\ categoryScores' = <<>>
    /\ overallScore' = zeroScore
    /\ commits' = <<>>
    /\ allIssues' = <<>>
    /\ releases' = <<>>
    /\ contributors' = <<>>
    /\ closedPRs' = <<>>
    /\ openPRs' = <<>>
    /\ openIssues' = <<>>
    /\ files' = <<>>
    /\ dependencies' = <<>>
    /\ prevCommits' = <<>>
    /\ prevIssues' = <<>>
    /\ prDetails' = <<>>
    /\ largeFiles' = <<>>
    /\ outdatedDeps' = <<>>
    /\ metrics' = zeroMetrics
    /\ result' = <<>>
    /\ err' = <<>>
    /\ UNCHANGED <<varsLookup, varsMetrics, deployFreq, deployRating, cfr,
                   cfrRating, period, repo>>

NextAnalyze ==
    \/ GetCommits
    \/ GetContributors
    \/ GetClosedPRs
    \/ GetOpenPRs
    \/ GetAllIssues
    \/ GetOpenIssues
    \/ GetFiles
    \/ GetDependencies
    \/ GetReleases
    \/ GetPrevCommits
    \/ GetPrevIssues
    \/ BuildPRDetails
    \/ DetectRisks
    \/ CalculateMetrics
    \/ CalculateScores
    \/ Assemble
    \/ HandleReturn
    \/ AnalyzeAgain

SpecAnalyze == InitAnalyze /\ [][NextAnalyze]_vars

\* A returned result with its GeneratedAt blanked.
withoutGeneratedAt(r) ==
    IF r = <<>> THEN <<>> ELSE << [ r[1] EXCEPT !.GeneratedAt = 0 ] >>

(***************************************************************************)
(* C1: for fixed answers of the collaborator, two calls of Analyze return  *)
(* results that are equal in every field other than GeneratedAt, the order *)
(* of Risks and of every score breakdown included, also when two or more   *)
(* files reach the change-concentration threshold, and the same error.     *)
(***************************************************************************)
C1_AnalyzeDeterministic ==
    (pc = "returned" /\ run >= 2)
        => /\ withoutGeneratedAt(result) = withoutGeneratedAt(lastResult)
           /\ err = lastErr

\* The GetCommits calls Analyze made so far: the first for the period, the
\* second for the comparison period.
commitCalls == SelectSeq(calls, LAMBDA c : c.Op = "GetCommits")

PrevPeriodBuilt == Len(commitCalls) >= 2

\* The comparison period Analyze built.
prevPeriodAsked == NewDateRange(commitCalls[2].Arg[1], commitCalls[2].Arg[2])

\* The instants strictly between the end of the comparison period and From.
UncoveredInstants ==
    { t \in (prevPeriodAsked.To + 1)..(period.From - 1) : TRUE }

PreviousPeriodOneDayBefore ==
    PrevPeriodBuilt
        => /\ prevPeriodAsked.To = period.From - 24
           /\ Days(prevPeriodAsked) = Days(period)
           /\ prevPeriodAsked.To < period.From
           /\ Cardinality(UncoveredInstants) = 23

\* Analyze has returned to its caller.
AnalyzeReturned == pc \in { "returned", "handled" }

\* The position, among the calls of Analyze, of the first required fetch
\* that fails: commits first, contributors second, closed pull requests
\* third; 0 when none of the three fails.
firstRequiredFailure ==
    IF "commits" \in repo.failing THEN 1
    ELSE IF "contributors" \in repo.failing THEN 2
    ELSE IF "closedPRs" \in repo.failing THEN 3
    ELSE 0

\* The call each of the three required fetches makes.
requiredCall(k) ==
    IF k = 1 THEN Call("GetCommits", "", <<period.From, period.To>>)
    ELSE IF k = 2 THEN Call("GetContributors", "", <<>>)
    ELSE Call("GetPullRequests", "closed", <<>>)

(***************************************************************************)
(* C14: if the fetch of commits, of contributors or of closed pull         *)
(* requests fails, Analyze returns a nil result together with a non-nil    *)
(* error, and makes no further call to the collaborator after the failing  *)
(* one.                                                                    *)
(***************************************************************************)
C14_RequiredFetchFatal ==
    firstRequiredFailure > 0
        => /\ Len(calls) <= firstRequiredFailure
           /\ AnalyzeReturned
                => /\ result = <<>>
                   /\ err # <<>>
                   /\ Len(calls) = firstRequiredFailure
                   /\ calls[Len(calls)] = requiredCall(firstRequiredFailure)

\* The closed pull requests fetch failed after two fetches that succeeded.
C14_Witness ==
    /\ pc = "returned"
    /\ repo.failing = { "closedPRs" }
    /\ commits # <<>>
    /\ contributors # <<>>
    /\ Len(calls) = 3
    /\ calls[3].Op = "GetPullRequests"
    /\ result = <<>>
    /\ err = ErrorOf("closedPRs")

\* A trend delta that fell back: previous value 0, delta 0, direction same.
NeutralTrend(t) ==
    /\ t.PreviousValue = <<0, 1>>
    /\ t.DeltaPct = <<0, 1>>
    /\ t.Direction = "same"

\* Only fetches that Analyze tolerates fail.
OnlyToleratedFail == repo.failing \subseteq ToleratedStages

(***************************************************************************)
(* C15: if only the releases fetch, the previous-period commits fetch, the *)
(* previous-period issues fetch or per-PR detail and review fetches fail,  *)
(* Analyze still returns a result and no error; a failed releases fetch    *)
(* gives DeployFrequency 0 with rating "N/A" and ChangeFailRating "N/A";   *)
(* a failed previous-period commits fetch gives the commit count and       *)
(* commit frequency deltas, and a failed previous-period issues fetch the  *)
(* issue close rate delta, previous value 0, delta 0 and direction "same"; *)
(* a failed detail fetch gives that PR size 0 and a failed review fetch    *)
(* gives it review wait 0.                                                 *)
(***************************************************************************)
C15_ToleratedFetchNeutral ==
    (AnalyzeReturned /\ OnlyToleratedFail)
        => /\ err = <<>>
           /\ result # <<>>
           /\ "releases" \in repo.failing
                => /\ result[1].Metrics.DeployFrequency = <<0, 1>>
                   /\ result[1].Metrics.DeployFreqRating = "N/A"
                   /\ result[1].Metrics.ChangeFailRating = "N/A"
           /\ "prevCommits" \in repo.failing
                => /\ NeutralTrend(result[1].Trends[1])
                   /\ NeutralTrend(result[1].Trends[2])
           /\ "prevIssues" \in repo.failing
                => NeutralTrend(result[1].Trends[3])
           /\ \A i \in 1..Len(result[1].PRDetails) :
                LET d == result[1].PRDetails[i]
                IN /\ d.Number \in repo.failDetail
                        => d.Size = 0 /\ d.Additions = 0 /\ d.Deletions = 0
                   /\ d.Number \in repo.failReviews
                        => d.ReviewWaitHours = <<0, 1>>

\* Every tolerated fetch failed, with the detail fetch of one pull request
\* and the review fetch of another, on a repository with commits, and a
\* result came back.
C15_Witness ==
    /\ pc = "returned"
    /\ repo.failing = ToleratedStages
    /\ repo.failDetail = {2}
    /\ repo.failReviews = {1}
    /\ err = <<>>
    /\ result # <<>>
    /\ result[1].Metrics.TotalCommits > 0
    /\ result[1].Metrics.DeployFreqRating = "N/A"
    /\ Len(result[1].Trends) = 3
    /\ result[1].Trends[1].CurrentValue # <<0, 1>>
    /\ NeutralTrend(result[1].Trends[1])
    /\ Len(result[1].PRDetails) = 3
    /\ result[1].PRDetails[2].Number = 2
    /\ result[1].PRDetails[2].Size = 0
    /\ result[1].PRDetails[1].ReviewWaitHours = <<0, 1>>
    /\ result[1].PRDetails[1].Size > 0

\* The name of each required stage.
requiredStage(k) ==
    IF k = 1 THEN "commits" ELSE IF k = 2 THEN "contributors" ELSE "closedPRs"

\* What Handle and Analyze together put in front of the collaborator's
\* error.
engineWrapping ==
    SubSeq(handled[1].err, 1, Len(handled[1].err) - Len(err))

(***************************************************************************)
(* C16: when a required fetch (commits, contributors, closed pull          *)
(* requests) fails, the error surfaced to the caller is a wrapped error    *)
(* that names the stage that failed: the wrapping the engine adds to the   *)
(* collaborator's error contains the name of the failing stage.            *)
(***************************************************************************)
C16_WrappingNamesStage ==
    (pc = "handled" /\ firstRequiredFailure > 0)
        => /\ handled[1].err # <<>>
           /\ \E i \in 1..Len(engineWrapping) :
                 engineWrapping[i] = requiredStage(firstRequiredFailure)

\* What does hold: the caller gets no result and the collaborator's error
\* behind the one text "analyze failed", whichever stage failed.
SameWrappingForEveryStage ==
    (pc = "handled" /\ firstRequiredFailure > 0)
        => /\ handled[1].result = <<>>
           /\ handled[1].err = <<"analyze failed">> \o err
           /\ err = ErrorOf(requiredStage(firstRequiredFailure))

(***************************************************************************)
(* Metrics specification: the calls calculateMetrics makes on the closed   *)
(* pull requests and on the issues of one period: calculateAvgLeadTime,    *)
(* calculatePRBreakdown, calculateIssueStats, calculateMTTR.               *)
(***************************************************************************)
MaxPRList == 2
MaxIssueList == 2

MetricsPeriod == NewDateRange(PeriodFrom, PeriodFrom + 720)

\* Branch names: every prefix the three predicates test, bare; prefixes in
\* capitals, without the slash, after another letter, one after another;
\* the empty name and a name with no prefix.
BranchNames ==
    { <<"f", "i", "x", "/">>, <<"b", "u", "g", "f", "i", "x", "/">>,
      <<"h", "o", "t", "f", "i", "x", "/">>,
      <<"f", "e", "a", "t", "u", "r", "e", "/">>, <<"f", "e", "a", "t", "/">>,
      <<"r", "e", "f", "a", "c", "t", "o", "r", "/">>,
      <<"c", "h", "o", "r", "e", "/">>, <<"d", "e", "b", "t", "/">>,
      <<"c", "i", "/">>, <<"d", "o", "c", "s", "/">>,
      BranchFixCapital, <<"f", "e", "a", "t", "u", "r", "e">>,
      <<"x", "f", "i", "x", "/">>, <<"f", "e", "a", "t", "/", "f", "i", "x", "/">>,
      <<"f", "i", "x", "/", "c", "i", "/">>, <<>>, BranchOther }

\* Pull requests created at noon of the first day: every branch name merged
\* three days later, some not merged, and one branch merged at once, a day
\* and a half later, one day before and two days before its creation.
PRKinds ==
    { PullRequest(1, b, Noon, <<Noon + 72>>) : b \in BranchNames }
    \cup { PullRequest(1, b, Noon, <<>>) :
             b \in { BranchFeature, BranchFixCapital, BranchOther } }
    \cup { PullRequest(1, BranchFeature, Noon, <<Noon + d>>) :
             d \in { 0, 36, -24, -48 } }

\* Hours from creation to closure that lie around the rating limits, and
\* one closure before the creation.
RecoveryHours == { -1, 0, 1, 23, 24, 167, 168, 335 }

\* Issues created around both ends of the period, with and without a
\* failure label, open or closed a day and a half later; failure issues
\* created at From and closed after every RecoveryHours; failure issues
\* created at To and closed at To or after it.
IssueInputs(p) ==
    { [ CreatedAt |-> t, Labels |-> ls,
        ClosedAt |-> IF closed THEN <<t + 36>> ELSE <<>> ] :
        t \in { p.From - 1, p.From, p.To, p.To + 1 },
        ls \in { <<>>, <<LabelBugCapital, LabelHotfixUpper>>,
                 <<LabelDocs, LabelIncident>>, <<LabelBugs, LabelDocs>> },
        closed \in BOOLEAN }
    \cup { ClosedIssue(p.From, <<LabelBug>>, p.From + h) :
             h \in RecoveryHours }
    \cup { ClosedIssue(p.To, <<LabelBug>>, p.To + h) : h \in { 0, 1 } }

InitMetrics ==
    /\ pc = "calculateAvgLeadTime"
    /\ IdleScore
    /\ IdleLookup
    /\ IdleMetrics
    /\ period = MetricsPeriod
    /\ commits = <<>>
    /\ releases = <<>>
    /\ deployFreq = <<0, 1>>
    /\ deployRating = ""
    /\ cfr = <<0, 1>>
    /\ cfrRating = ""
    /\ repo = noRepository
    /\ contributors = <<>>
    /\ openPRs = <<>>
    /\ openIssues = <<>>
    /\ files = <<>>
    /\ dependencies = <<>>
    /\ prevCommits = <<>>
    /\ prevIssues = <<>>
    /\ prDetails = <<>>
    /\ largeFiles = <<>>
    /\ outdatedDeps = <<>>
    /\ metrics = zeroMetrics
    /\ result = <<>>
    /\ err = <<>>
    /\ calls = <<>>
    /\ now = 0
    /\ run = 0
    /\ lastResult = <<>>
    /\ lastErr = <<>>
    /\ handled = <<>>
    /\ \/ /\ closedPRs \in SeqsUpTo(PRKinds, MaxPRList)
          /\ allIssues = <<>>
       \/ /\ closedPRs = <<>>
          /\ allIssues \in SeqsUpTo(IssueInputs(period), MaxIssueList)

varsMetricsFixed ==
    <<varsScore, varsLookup, varsDora, varsAnalyze, argCurrent, argPrevious,
      retTrend, retTrends>>

\* avgLeadTime := s.calculateAvgLeadTime(in.closedPRs)
CalcAvgLeadTime ==
    /\ pc = "calculateAvgLeadTime"
    /\ avgLeadTime' = calculateAvgLeadTime(closedPRs)
    /\ pc' = "calculatePRBreakdown"
    /\ UNCHANGED <<varsMetricsFixed, prBreakdown, issueStats, mttr,
                   mttrRating>>

\* prb := s.calculatePRBreakdown(in.closedPRs)
CalcPRBreakdown ==
    /\ pc = "calculatePRBreakdown"
    /\ prBreakdown' = <<calculatePRBreakdown(closedPRs)>>
    /\ pc' = "calculateIssueStats"
    /\ UNCHANGED <<varsMetricsFixed, avgLeadTime, issueStats, mttr,
                   mttrRating>>

\* is := s.calculateIssueStats(in.allIssues, in.period)
CalcIssueStats ==
    /\ pc = "calculateIssueStats"
    /\ issueStats' = <<calculateIssueStats(allIssues, period)>>
    /\ pc' = "calculateMTTR"
    /\ UNCHANGED <<varsMetricsFixed, avgLeadTime, prBreakdown, mttr,
                   mttrRating>>

\* mttr, mttrRating := s.calculateMTTR(in.allIssues, in.period)
CalcMTTR ==
    /\ pc = "calculateMTTR"
    /\ mttr' = calculateMTTR(allIssues, period)[1]
    /\ mttrRating' = calculateMTTR(allIssues, period)[2]
    /\ pc' = "calculated"
    /\ UNCHANGED <<varsMetricsFixed, avgLeadTime, prBreakdown, issueStats>>

NextMetrics ==
    \/ CalcAvgLeadTime
    \/ CalcPRBreakdown
    \/ CalcIssueStats
    \/ CalcMTTR

SpecMetrics == InitMetrics /\ [][NextMetrics]_vars

\* The sum of f over the indices in S.
RECURSIVE SumOver(_, _)
SumOver(f, S) ==
    IF S = {} THEN 0
    ELSE LET i == CHOOSE x \in S : TRUE
         IN f[i] + SumOver(f, S \ {i})

\* The issues created inside the period that have a closure timestamp and
\* carry a bug, incident or hotfix label in any case of letters.
RecoveredIssues(issues, p) ==
    { i \in 1..Len(issues) :
        /\ p.From <= issues[i].CreatedAt
        /\ issues[i].CreatedAt <= p.To
        /\ issues[i].ClosedAt # <<>>
        /\ \E k \in 1..Len(issues[i].Labels) :
              ToLower(issues[i].Labels[k]) \in FailureLabels }

\* Those of them that were not closed before they were created.
RecoveredInOrder(issues, p) ==
    { i \in RecoveredIssues(issues, p) :
        issues[i].ClosedAt[1] >= issues[i].CreatedAt }

RecoveryHoursOf(issues) ==
    [ i \in 1..Len(issues) |->
        IF issues[i].ClosedAt = <<>> THEN 0
        ELSE issues[i].ClosedAt[1] - issues[i].CreatedAt ]

\* The rating of a mean of total / n hours.
RecoveryBand(total, n) ==
    IF total < n THEN "Elite"
    ELSE IF total < 24 * n THEN "High"
    ELSE IF total < 168 * n THEN "Medium"
    ELSE "Low"

\* mttr and mttrRating are the mean and the rating over the issues in S.
RecoveryOver(issues, S) ==
    IF S = {} THEN mttr = <<0, 1>> /\ mttrRating = "N/A"
    ELSE LET total == SumOver(RecoveryHoursOf(issues), S)
             n == Cardinality(S)
         IN /\ mttr[1] * n = total * mttr[2]
            /\ mttrRating = RecoveryBand(total, n)

\* C11 as stated: MTTR is the mean of (closed - created) in hours over
\* exactly the issues created inside the period that have a closure
\* timestamp and a bug, incident or hotfix label; 0 and "N/A" with no such
\* issue; otherwise Elite under 1 hour, High under 24, Medium under 168,
\* else Low.
C11_MTTROverLabelledClosed ==
    pc = "calculated"
        => RecoveryOver(allIssues, RecoveredIssues(allIssues, period))

(***************************************************************************)
(* C11, amended: MTTR is the mean of (closed - created) in hours over      *)
(* exactly the issues created inside the period that have a closure        *)
(* timestamp not earlier than their creation and a bug, incident or hotfix *)
(* label in any case of letters; with no such issue the value is 0 and the *)
(* rating "N/A"; otherwise the rating is Elite for a mean under 1 hour,    *)
(* High under 24, Medium under 168, else Low.                              *)
(***************************************************************************)
C11_MTTR ==
    pc = "calculated"
        => RecoveryOver(allIssues, RecoveredInOrder(allIssues, period))

C11_Witness ==
    /\ pc = "calculated"
    /\ Len(allIssues) = 2
    /\ RecoveredIssues(allIssues, period) = { 1, 2 }
    /\ RecoveredInOrder(allIssues, period) = { 2 }
    /\ mttr = <<167, 1>>
    /\ mttrRating = "Medium"

\* calculateAvgLeadTime has returned.
AvgLeadTimeDone == pc # "calculateAvgLeadTime"

\* The pull requests with a merge timestamp, and those of them that were
\* not merged before they were created.
MergedPRs(prs) == { i \in 1..Len(prs) : prs[i].MergedAt # <<>> }

MergedInOrder(prs) ==
    { i \in MergedPRs(prs) : prs[i].MergedAt[1] >= prs[i].CreatedAt }

HoursToMerge(prs) ==
    [ i \in 1..Len(prs) |->
        IF prs[i].MergedAt = <<>> THEN 0
        ELSE prs[i].MergedAt[1] - prs[i].CreatedAt ]

\* avgLeadTime is the mean, in days, of the hours to merge over S, 0 for
\* an empty S.
AvgLeadTimeOver(prs, S) ==
    IF S = {} THEN avgLeadTime = <<0, 1>>
    ELSE avgLeadTime[1] * 24 * Cardinality(S)
           = SumOver(HoursToMerge(prs), S) * avgLeadTime[2]

\* LeadTime of a merged pull request is (merged - created) in days.
LeadTimeInDays(pr) ==
    pr.MergedAt # <<>>
        => LeadTime(pr)[1] * 24
             = (pr.MergedAt[1] - pr.CreatedAt) * LeadTime(pr)[2]

PRBreakdownDone == pc \notin { "calculateAvgLeadTime", "calculatePRBreakdown" }

\* How many of the three predicates are true of pr.
KindsTrue(pr) ==
    (IF IsBugFix(pr) THEN 1 ELSE 0) + (IF IsFeature(pr) THEN 1 ELSE 0)
      + (IF IsRefactor(pr) THEN 1 ELSE 0)

\* The bucket of a merged pull request when bugfix is tested before
\* feature.
BucketBugFixFirst(pr) ==
    IF IsBugFix(pr) THEN "BugFix"
    ELSE IF IsFeature(pr) THEN "Feature"
    ELSE IF IsRefactor(pr) THEN "Refactor"
    ELSE "Other"

BucketSize(prs, bucket) ==
    Cardinality({ i \in MergedPRs(prs) : BucketBugFixFirst(prs[i]) = bucket })

\* ratio is count as a percentage of total, 0 when total is 0.
IsPercentage(ratio, count, total) ==
    IF total = 0 THEN ratio = <<0, 1>>
    ELSE ratio[1] * total = 100 * count * ratio[2]

(***************************************************************************)
(* C18: for every branch name at most one of IsBugFix, IsFeature and       *)
(* IsRefactor is true; calculatePRBreakdown counts every merged pull       *)
(* request in exactly one of Feature, BugFix, Refactor, Other, the same    *)
(* one whether bugfix or feature is tested first, and no unmerged pull     *)
(* request; the four counts add up to the number of merged pull requests,  *)
(* each ratio is its count as a percentage of that number, and all ratios  *)
(* are 0 when no pull request is merged.                                   *)
(***************************************************************************)
C18_PRBreakdownPartition ==
    PRBreakdownDone
        => LET b == prBreakdown[1]
               merged == Cardinality(MergedPRs(closedPRs))
           IN /\ \A i \in 1..Len(closedPRs) : KindsTrue(closedPRs[i]) <= 1
              /\ b.Feature = BucketSize(closedPRs, "Feature")
              /\ b.BugFix = BucketSize(closedPRs, "BugFix")
              /\ b.Refactor = BucketSize(closedPRs, "Refactor")
              /\ b.Other = BucketSize(closedPRs, "Other")
              /\ b.Feature + b.BugFix + b.Refactor + b.Other = merged
              /\ IsPercentage(b.BugFixRatio, b.BugFix, merged)
              /\ IsPercentage(b.FeatureRatio, b.Feature, merged)
              /\ IsPercentage(b.RefactorRatio, b.Refactor, merged)

\* A merged bugfix in capitals, and an unmerged feature that is counted
\* nowhere.
C18_Witness ==
    /\ pc = "calculateIssueStats"
    /\ Len(closedPRs) = 2
    /\ closedPRs[1].HeadBranch = BranchFixCapital
    /\ closedPRs[1].MergedAt # <<>>
    /\ closedPRs[2].HeadBranch = BranchFeature
    /\ closedPRs[2].MergedAt = <<>>
    /\ prBreakdown[1].BugFix = 1
    /\ prBreakdown[1].Feature = 0
    /\ prBreakdown[1].BugFixRatio = <<100, 1>>

\* calculateIssueStats has returned.
IssueStatsDone == pc \in { "calculateMTTR", "calculated" }

CreatedInside(issues, p) ==
    { i \in 1..Len(issues) :
        p.From <= issues[i].CreatedAt /\ issues[i].CreatedAt <= p.To }

ClosedInside(issues, p) ==
    { i \in 1..Len(issues) :
        /\ issues[i].ClosedAt # <<>>
        /\ p.From <= issues[i].ClosedAt[1]
        /\ issues[i].ClosedAt[1] <= p.To }

(***************************************************************************)
(* C19: calculateIssueStats counts as created every issue whose creation   *)
(* timestamp t satisfies From <= t <= To and as closed every issue that    *)
(* has a closure timestamp c with From <= c <= To, independently of each   *)
(* other; the close rate is closed / created * 100 and is 0 when           *)
(* created = 0.                                                            *)
(***************************************************************************)
C19_IssueStatsWindowed ==
    IssueStatsDone
        => LET st == issueStats[1]
           IN /\ st.Created = Cardinality(CreatedInside(allIssues, period))
              /\ st.Closed = Cardinality(ClosedInside(allIssues, period))
              /\ IsPercentage(st.CloseRate, st.Closed, st.Created)

\* An issue created before the period and closed inside it counts as
\* closed and not as created; an open issue created at To counts as
\* created.
C19_Witness ==
    /\ pc = "calculateMTTR"
    /\ Len(allIssues) = 2
    /\ allIssues[1].CreatedAt = period.From - 1
    /\ allIssues[1].ClosedAt = <<period.From + 35>>
    /\ allIssues[2].CreatedAt = period.To
    /\ allIssues[2].ClosedAt = <<>>
    /\ issueStats[1].Created = 1
    /\ issueStats[1].Closed = 1
    /\ issueStats[1].CloseRate = <<100, 1>>

(***************************************************************************)
(* Trend specification: buildTrendDelta called on one pair of values, and  *)
(* calculateTrends called on the metrics of the period and the lists of    *)
(* the previous period.                                                    *)
(***************************************************************************)
MaxPrevIssues == 2

\* Current values around 5% above and below 100 and 20, and a fraction.
TrendCurrents ==
    { <<v, 1>> : v \in { 0, 19, 21, 80, 94, 95, 96, 100, 104, 105, 106,
                         120 } }
    \cup { <<7, 2>> }

\* Previous values: negative, zero, whole and a fraction.
TrendPrevious == { <<-100, 1>>, <<0, 1>>, <<20, 1>>, <<100, 1>>, <<1, 2>> }

TrendPeriods ==
    { NewDateRange(PeriodFrom, PeriodFrom + h) : h \in { 12, 720 } }

\* The metrics of a period with n commits and an issue close rate of rate.
TrendMetrics(p, n, rate) ==
    [ zeroMetrics EXCEPT
        !.TotalCommits = n,
        !.FeatureAdditionRate =
            Ratio(n, IF Days(p) = 0 THEN 1 ELSE Days(p)),
        !.IssueCloseRate = <<rate, 1>> ]

\* Issues of the previous period, open and closed.
PrevIssueKinds(p) ==
    { Issue(previousPeriod(p).From, <<>>),
      ClosedIssue(previousPeriod(p).From, <<>>, previousPeriod(p).To) }

InitTrend ==
    /\ IdleScore
    /\ IdleLookup
    /\ commits = <<>>
    /\ allIssues = <<>>
    /\ releases = <<>>
    /\ deployFreq = <<0, 1>>
    /\ deployRating = ""
    /\ cfr = <<0, 1>>
    /\ cfrRating = ""
    /\ repo = noRepository
    /\ contributors = <<>>
    /\ closedPRs = <<>>
    /\ openPRs = <<>>
    /\ openIssues = <<>>
    /\ files = <<>>
    /\ dependencies = <<>>
    /\ prDetails = <<>>
    /\ largeFiles = <<>>
    /\ outdatedDeps = <<>>
    /\ result = <<>>
    /\ err = <<>>
    /\ calls = <<>>
    /\ now = 0
    /\ run = 0
    /\ lastResult = <<>>
    /\ lastErr = <<>>
    /\ handled = <<>>
    /\ avgLeadTime = <<0, 1>>
    /\ prBreakdown = <<>>
    /\ issueStats = <<>>
    /\ mttr = <<0, 1>>
    /\ mttrRating = ""
    /\ retTrend = <<>>
    /\ retTrends = <<>>
    /\ \/ /\ pc = "buildTrendDelta"
          /\ argCurrent \in TrendCurrents
          /\ argPrevious \in TrendPrevious
          /\ period = [ From |-> 0, To |-> 0 ]
          /\ metrics = zeroMetrics
          /\ prevCommits = <<>>
          /\ prevIssues = <<>>
       \/ /\ pc = "calculateTrends"
          /\ argCurrent = <<0, 1>>
          /\ argPrevious = <<0, 1>>
          /\ period \in TrendPeriods
          /\ metrics \in { TrendMetrics(period, n, rate) :
                             n \in { 0, 21, 30 }, rate \in { 0, 50, 100 } }
          /\ prevCommits \in { Repeat(Commit(MessagePlain), n) :
                                 n \in { 0, 20, 30 } }
          /\ prevIssues \in SeqsUpTo(PrevIssueKinds(period), MaxPrevIssues)

\* buildTrendDelta(name, current, previous)
BuildTrendDelta ==
    /\ pc = "buildTrendDelta"
    /\ retTrend' = <<buildTrendDelta("trend", argCurrent, argPrevious)>>
    /\ pc' = "built"
    /\ UNCHANGED <<varsScore, varsLookup, varsDora, varsAnalyze, avgLeadTime,
                   prBreakdown, issueStats, mttr, mttrRating, argCurrent,
                   argPrevious, retTrends>>

\* trends := s.calculateTrends(metrics, prevCommits, prevIssues, prevPeriod)
CalcTrends ==
    /\ pc = "calculateTrends"
    /\ retTrends' = calculateTrends(metrics, prevCommits, prevIssues,
                                    previousPeriod(period))
    /\ pc' = "trended"
    /\ UNCHANGED <<varsScore, varsLookup, varsDora, varsAnalyze, avgLeadTime,
                   prBreakdown, issueStats, mttr, mttrRating, argCurrent,
                   argPrevious, retTrend>>

NextTrend ==
    \/ BuildTrendDelta
    \/ CalcTrends

SpecTrend == InitTrend /\ [][NextTrend]_vars

\* d = (c - p) / p * 100 for rationals c, p, d with p # 0.
IsDeltaPct(d, c, p) ==
    d[1] * (p[1] * c[2]) = 100 * (c[1] * p[2] - p[1] * c[2]) * d[2]

\* The direction that goes with the delta d.
DirectionFits(t) ==
    LET d == t.DeltaPct
    IN /\ t.Direction \in { "same", "up", "down" }
       /\ t.Direction = "same" <=> (-5 * d[2] <= d[1] /\ d[1] <= 5 * d[2])
       /\ t.Direction = "up" <=> d[1] > 5 * d[2]
       /\ t.Direction = "down" <=> d[1] < -5 * d[2]

\* calculateTrends returned three deltas: commit count, commit frequency,
\* issue close rate, each on its value of the metrics.
ThreeTrends ==
    /\ Len(retTrends) = 3
    /\ retTrends[1].MetricName = "trend_commit_count"
    /\ retTrends[1].CurrentValue = <<metrics.TotalCommits, 1>>
    /\ retTrends[1].PreviousValue = <<Len(prevCommits), 1>>
    /\ retTrends[2].MetricName = "trend_commit_frequency"
    /\ retTrends[2].CurrentValue = metrics.FeatureAdditionRate
    /\ retTrends[3].MetricName = "trend_issue_close_rate"
    /\ retTrends[3].CurrentValue = metrics.IssueCloseRate
    /\ \A i \in 1..3 : DirectionFits(retTrends[i])

\* C12 as stated: for every pair, delta = (current - previous) / previous
\* * 100 when previous is non-zero and 0 when previous = 0; "same" exactly
\* when |delta| <= 5, "up" exactly when delta > 5, "down" exactly when
\* delta < -5; calculateTrends returns exactly three deltas in the order
\* commit count, commit frequency, issue close rate.
C12_DeltaWheneverNonZero ==
    /\ pc = "built" =>
         /\ argPrevious[1] # 0
              => IsDeltaPct(retTrend[1].DeltaPct, argCurrent, argPrevious)
         /\ argPrevious[1] = 0 => retTrend[1].DeltaPct = <<0, 1>>
         /\ DirectionFits(retTrend[1])
    /\ pc = "trended" => ThreeTrends

(***************************************************************************)
(* C12, amended: for every pair (current, previous), buildTrendDelta       *)
(* returns delta = (current - previous) / previous * 100 when previous is  *)
(* greater than zero and delta = 0 when previous is zero or negative; the  *)
(* direction is "same" exactly when |delta| <= 5, "up" exactly when        *)
(* delta > 5 and "down" exactly when delta < -5; calculateTrends always    *)
(* returns exactly three deltas, in the order commit count, commit         *)
(* frequency, issue close rate.                                            *)
(***************************************************************************)
C12_TrendDelta ==
    /\ pc = "built" =>
         /\ argPrevious[1] > 0
              => IsDeltaPct(retTrend[1].DeltaPct, argCurrent, argPrevious)
         /\ argPrevious[1] <= 0 => retTrend[1].DeltaPct = <<0, 1>>
         /\ retTrend[1].CurrentValue = argCurrent
         /\ retTrend[1].PreviousValue = argPrevious
         /\ DirectionFits(retTrend[1])
    /\ pc = "trended" => ThreeTrends

\* A delta of exactly 5 is "same".
C12_Witness ==
    /\ pc = "built"
    /\ argCurrent = <<105, 1>>
    /\ argPrevious = <<100, 1>>
    /\ retTrend[1].DeltaPct = <<5, 1>>
    /\ retTrend[1].Direction = "same"

(***************************************************************************)
(* Change concentration specification: detectChangeConcentration called on *)
(* one commit list.                                                        *)
(***************************************************************************)
\* Numbers of commits below, at and above both thresholds.
BothCounts ==
    { 0, changeConcentrationWarning - 1, changeConcentrationWarning,
      changeConcentrationCritical - 1, changeConcentrationCritical }

AloneCounts ==
    { 0, 1, changeConcentrationWarning - 1, changeConcentrationWarning,
      changeConcentrationWarning + 1 }

\* both commits that change a.go and b.go, then alone commits that change
\* b.go, then twice commits whose file list names a.go two times.
ConcentrationCommits(both, alone, twice) ==
    Repeat(CommitAt(Noon, MessagePlain, <<"a.go", "b.go">>), both)
      \o Repeat(CommitAt(Noon, MessagePlain, <<"b.go">>), alone)
      \o Repeat(CommitAt(Noon, MessagePlain, <<"a.go", "a.go">>), twice)

InitConcentration ==
    /\ pc = "detectChangeConcentration"
    /\ IdleScore
    /\ IdleLookup
    /\ IdleAnalyze
    /\ IdleMetrics
    /\ period = [ From |-> 0, To |-> 0 ]
    /\ allIssues = <<>>
    /\ releases = <<>>
    /\ deployFreq = <<0, 1>>
    /\ deployRating = ""
    /\ cfr = <<0, 1>>
    /\ cfrRating = ""
    /\ commits \in { ConcentrationCommits(both, alone, twice) :
                       both \in BothCounts, alone \in AloneCounts,
                       twice \in { 0, 5 } }

\* risks = append(risks, s.detectChangeConcentration(commits)...)
DetectConcentration ==
    /\ pc = "detectChangeConcentration"
    /\ \E order \in IterationOrders(DOMAIN fileChanges(commits)) :
         risks' = detectChangeConcentration(commits, order)
    /\ pc' = "detected"
    /\ UNCHANGED <<categoryScores, overallScore, varsLookup, varsDora,
                   varsAnalyze, varsMetrics>>

NextConcentration == DetectConcentration

SpecConcentration == InitConcentration /\ [][NextConcentration]_vars

\* The paths named in the file lists of cs.
PathsOf(cs) ==
    UNION { { cs[i].Files[j] : j \in 1..Len(cs[i].Files) } : i \in 1..Len(cs) }

\* The number of commits of cs whose file list names f.
ListsNaming(cs, f) ==
    Cardinality({ i \in 1..Len(cs) :
                    \E j \in 1..Len(cs[i].Files) : cs[i].Files[j] = f })

\* The number of times the file lists of cs name f.
TimesNamed(cs, f) ==
    Cardinality({ ij \in (1..Len(cs)) \X (1..2) :
                    /\ ij[2] <= Len(cs[ij[1]].Files)
                    /\ cs[ij[1]].Files[ij[2]] = f })

RisksOn(f) == { k \in 1..Len(risks) : risks[k].Target = <<f>> }

\* Exactly one risk on every path whose count is at least 10 and none on
\* any other; High with threshold 20 from count 20, Medium with threshold
\* 10 below; the value is the count.
ConcentrationBy(count) ==
    /\ \A k \in 1..Len(risks) :
          \E f \in PathsOf(commits) : risks[k].Target = <<f>>
    /\ \A f \in PathsOf(commits) :
          IF count[f] >= 10
          THEN /\ Cardinality(RisksOn(f)) = 1
               /\ \A k \in RisksOn(f) :
                     /\ risks[k].Type = RiskTypeChangeConcentration
                     /\ risks[k].Value = count[f]
                     /\ IF count[f] >= 20
                        THEN /\ risks[k].Severity = SeverityHigh
                             /\ risks[k].Threshold = 20
                        ELSE /\ risks[k].Severity = SeverityMedium
                             /\ risks[k].Threshold = 10
          ELSE RisksOn(f) = {}

ConcentrationWithoutRepeats ==
    (pc = "detected"
       /\ \A f \in PathsOf(commits) :
             ListsNaming(commits, f) = TimesNamed(commits, f))
        => ConcentrationBy([ f \in PathsOf(commits) |->
                               ListsNaming(commits, f) ])

MaxContributors == 2
MaxFiles == 2
MaxDeps == 2

\* Contributions that make shares of 0, 20, 79, 80, 84 and 100 percent.
ContributionCounts == { 0, 1, 4, 21, 79 }

LoginNames == <<"alice", "bob", "carol", "dave">>

ContributorInputs ==
    { [ i \in 1..Len(counts) |-> Contributor(LoginNames[i], counts[i]) ] :
        counts \in SeqsUpTo(ContributionCounts, MaxContributors) }

\* A commit at hour h of the first day that names no file.
CommitAtHour(h) == CommitAt(PeriodFrom + h, MessagePlain, <<>>)

\* One commit at every hour of the day; and commits at 23h followed by
\* commits at 10h: 3 of 10, 2 of 9, 3 of 11, all and none at night.
CommitInputs ==
    { <<CommitAtHour(h)>> : h \in 0..23 }
    \cup { Repeat(CommitAtHour(23), night) \o Repeat(CommitAtHour(10), day) :
             night \in { 0, 2, 3 }, day \in { 0, 7, 8 } }

PathNames == <<"a.bin", "b.bin", "c.bin", "d.bin">>

\* Sizes one byte under, at and over both limits, and a small one.
FileSizes ==
    { 100, largeFileWarningBytes - 1, largeFileWarningBytes,
      largeFileCriticalBytes - 1, largeFileCriticalBytes,
      largeFileCriticalBytes + 1 }

FileInputs ==
    { [ i \in 1..Len(sizes) |-> File(PathNames[i], sizes[i]) ] :
        sizes \in SeqsUpTo(FileSizes, MaxFiles) }

\* Ages one month under, at and over both limits, and a new one.
DepAges ==
    { 3, outdatedDepWarningMonths - 1, outdatedDepWarningMonths,
      outdatedDepCriticalMonths - 1, outdatedDepCriticalMonths,
      outdatedDepCriticalMonths + 4 }

DepInputs ==
    { [ i \in 1..Len(ages) |-> Dependency(PathNames[i], "1.0", ages[i]) ] :
        ages \in SeqsUpTo(DepAges, MaxDeps) }

InitDetect ==
    /\ pc = "detectOwnershipRisk"
    /\ IdleScore
    /\ IdleLookup
    /\ IdleMetrics
    /\ period = [ From |-> 0, To |-> 0 ]
    /\ allIssues = <<>>
    /\ releases = <<>>
    /\ deployFreq = <<0, 1>>
    /\ deployRating = ""
    /\ cfr = <<0, 1>>
    /\ cfrRating = ""
    /\ repo = noRepository
    /\ closedPRs = <<>>
    /\ openPRs = <<>>
    /\ openIssues = <<>>
    /\ prevCommits = <<>>
    /\ prevIssues = <<>>
    /\ prDetails = <<>>
    /\ largeFiles = <<>>
    /\ outdatedDeps = <<>>
    /\ metrics = zeroMetrics
    /\ result = <<>>
    /\ err = <<>>
    /\ calls = <<>>
    /\ now = 0
    /\ run = 0
    /\ lastResult = <<>>
    /\ lastErr = <<>>
    /\ handled = <<>>
    /\ \/ /\ contributors \in ContributorInputs
          /\ commits = <<>> /\ files = <<>> /\ dependencies = <<>>
       \/ /\ commits \in CommitInputs
          /\ contributors = <<>> /\ files = <<>> /\ dependencies = <<>>
       \/ /\ files \in FileInputs
          /\ contributors = <<>> /\ commits = <<>> /\ dependencies = <<>>
       \/ /\ dependencies \in DepInputs
          /\ contributors = <<>> /\ commits = <<>> /\ files = <<>>

varsDetectFixed ==
    <<categoryScores, overallScore, varsLookup, varsDora, varsMetrics, repo,
      contributors, closedPRs, openPRs, openIssues, files, dependencies,
      prevCommits, prevIssues, prDetails, metrics, result, err, calls, now,
      run, lastResult, lastErr, handled>>

\* risks = append(risks, s.detectOwnershipRisk(contributors)...)
DetectOwnership ==
    /\ pc = "detectOwnershipRisk"
    /\ risks' = risks \o detectOwnershipRisk(contributors)
    /\ pc' = "detectLateNightRisk"
    /\ UNCHANGED <<varsDetectFixed, largeFiles, outdatedDeps>>

\* risks = append(risks, s.detectLateNightRisk(commits)...)
DetectLateNight ==
    /\ pc = "detectLateNightRisk"
    /\ risks' = risks \o detectLateNightRisk(commits)
    /\ pc' = "detectLargeFiles"
    /\ UNCHANGED <<varsDetectFixed, largeFiles, outdatedDeps>>

\* largeFileRisks, largeFiles := s.detectLargeFiles(files) and the append
\* of largeFileRisks.
DetectLargeFiles ==
    /\ pc = "detectLargeFiles"
    /\ risks' = risks \o detectLargeFiles(files)[1]
    /\ largeFiles' = detectLargeFiles(files)[2]
    /\ pc' = "detectOutdatedDeps"
    /\ UNCHANGED <<varsDetectFixed, outdatedDeps>>

\* outdatedRisks, outdatedDeps := s.detectOutdatedDeps(dependencies) and
\* the append of outdatedRisks.
DetectOutdatedDeps ==
    /\ pc = "detectOutdatedDeps"
    /\ risks' = risks \o detectOutdatedDeps(dependencies)[1]
    /\ outdatedDeps' = detectOutdatedDeps(dependencies)[2]
    /\ pc' = "risksDetected"
    /\ UNCHANGED <<varsDetectFixed, largeFiles>>

NextDetect ==
    \/ DetectOwnership
    \/ DetectLateNight
    \/ DetectLargeFiles
    \/ DetectOutdatedDeps

SpecDetect == InitDetect /\ [][NextDetect]_vars

\* The risks of one type, in the order of the list.
RisksOfType(t) == SelectSeq(risks, LAMBDA r : r.Type = t)

\* detectOwnershipRisk has returned.
OwnershipDone == pc # "detectOwnershipRisk"

ContributionsTotal ==
    SumOver([ i \in 1..Len(contributors) |-> contributors[i].Contributions ],
            1..Len(contributors))

\* The list is not empty, the total is positive and the first contributor
\* holds at least 80% of it.
FirstOwnsMost ==
    /\ Len(contributors) > 0
    /\ ContributionsTotal > 0
    /\ 100 * contributors[1].Contributions >= 80 * ContributionsTotal

(***************************************************************************)
(* C21: detectOwnershipRisk emits exactly one risk, Medium with threshold  *)
(* 80, target the first contributor's login and value the truncated        *)
(* percentage share, if and only if the contributor list is non-empty, the *)
(* total of contributions is positive and the first contributor's          *)
(* contributions are at least 80% of that total; in every other case it    *)
(* emits no risk.                                                          *)
(***************************************************************************)
C21_OwnershipRisk ==
    OwnershipDone
        => LET own == RisksOfType(RiskTypeOwnership)
           IN IF FirstOwnsMost
              THEN /\ Len(own) = 1
                   /\ own[1].Severity = SeverityMedium
                   /\ own[1].Threshold = 80
                   /\ own[1].Target = <<contributors[1].Login>>
                   /\ own[1].Value
                        = (100 * contributors[1].Contributions)
                            \div ContributionsTotal
              ELSE own = <<>>

\* The first contributor holds exactly 80%: one risk of value 80.
C21_Witness ==
    /\ pc = "detectLateNightRisk"
    /\ Len(contributors) = 2
    /\ contributors[1].Contributions = 4
    /\ contributors[2].Contributions = 1
    /\ Len(risks) = 1
    /\ risks[1].Type = RiskTypeOwnership
    /\ risks[1].Value = 80
    /\ risks[1].Target = <<"alice">>

\* detectLateNightRisk has returned.
LateNightDone == pc \notin { "detectOwnershipRisk", "detectLateNightRisk" }

\* The hours counted as late night.
NightHours == { 22, 23, 0, 1, 2, 3, 4 }

NightCommits ==
    Cardinality({ i \in 1..Len(commits) : commits[i].Date % 24 \in NightHours })

(***************************************************************************)
(* C22: a commit is counted as late-night exactly when the hour of its     *)
(* timestamp, taken as it arrives, is 22, 23 or between 0 and 4;           *)
(* detectLateNightRisk emits exactly one Medium risk with threshold 30 if  *)
(* and only if the commit list is non-empty and the late-night commits are *)
(* at least 30% of all commits, and nothing otherwise.                     *)
(***************************************************************************)
C22_LateNightRisk ==
    LateNightDone
        => LET late == RisksOfType(RiskTypeLateNight)
           IN /\ countLateNightCommits(commits) = NightCommits
              /\ IF Len(commits) > 0 /\ 100 * NightCommits >= 30 * Len(commits)
                 THEN /\ Len(late) = 1
                      /\ late[1].Severity = SeverityMedium
                      /\ late[1].Threshold = 30
                 ELSE late = <<>>

\* Three commits of ten are at 23h: exactly 30%, one risk.
C22_Witness ==
    /\ pc = "detectLargeFiles"
    /\ Len(commits) = 10
    /\ NightCommits = 3
    /\ Len(risks) = 1
    /\ risks[1].Type = RiskTypeLateNight
    /\ risks[1].Severity = SeverityMedium
    /\ risks[1].Value = 30

\* The elements of a set of numbers in rising order.
RECURSIVE Rising(_)
Rising(S) ==
    IF S = {} THEN <<>>
    ELSE LET least == CHOOSE x \in S : \A y \in S : x <= y
         IN <<least>> \o Rising(S \ {least})

\* The indices of the items of the High and of the Medium bucket, for a
\* list of measures and the two limits.
HighBucket(measures, critical) ==
    { i \in 1..Len(measures) : measures[i] >= critical }

MediumBucket(measures, warning, critical) ==
    { i \in 1..Len(measures) :
        measures[i] >= warning /\ measures[i] < critical }

\* found holds at most a High risk, then at most a Medium risk: each one
\* exactly when its bucket has items, with the number of items as value.
BucketRisks(found, high, medium) ==
    /\ Len(found) = (IF high = {} THEN 0 ELSE 1)
                      + (IF medium = {} THEN 0 ELSE 1)
    /\ high # {} => /\ found[1].Severity = SeverityHigh
                    /\ found[1].Value = Cardinality(high)
    /\ medium # {} => /\ found[Len(found)].Severity = SeverityMedium
                      /\ found[Len(found)].Value = Cardinality(medium)

\* list holds one entry for each item of the two buckets, in input order,
\* with the severity of its bucket.
DrillDown(list, names, high, medium) ==
    LET order == Rising(high \cup medium)
    IN /\ Len(list) = Cardinality(high) + Cardinality(medium)
       /\ \A k \in 1..Len(order) :
             /\ names[k] = order[k]
             /\ list[k].Severity
                  = IF order[k] \in high THEN SeverityHigh
                    ELSE SeverityMedium

\* The position in PathNames of a path or name.
PathIndex(name) == CHOOSE i \in 1..Len(PathNames) : PathNames[i] = name

(***************************************************************************)
(* C23: detectLargeFiles and detectOutdatedDeps each return at most two    *)
(* risks, at most one High and at most one Medium, the High one first;     *)
(* each item is in exactly one bucket (size >= 100KB or age >= 36 months   *)
(* is High, otherwise size >= 50KB or age >= 24 months is Medium,          *)
(* otherwise none); a bucket's risk exists if and only if the bucket is    *)
(* non-empty and its value is the bucket's item count; the drill-down list *)
(* holds every offending item exactly once in input order, so its length   *)
(* is the sum of the risk values.                                          *)
(***************************************************************************)
C23_BucketsAndDrillDown ==
    pc = "risksDetected"
        => LET sizes == [ i \in 1..Len(files) |-> files[i].Size ]
               ages == [ i \in 1..Len(dependencies) |->
                           dependencies[i].AgeMonths ]
               bigHigh == HighBucket(sizes, 100 * 1024)
               bigMedium == MediumBucket(sizes, 50 * 1024, 100 * 1024)
               oldHigh == HighBucket(ages, 36)
               oldMedium == MediumBucket(ages, 24, 36)
               big == RisksOfType(RiskTypeLargeFile)
               old == RisksOfType(RiskTypeOutdatedDeps)
           IN /\ BucketRisks(big, bigHigh, bigMedium)
              /\ DrillDown(largeFiles,
                           [ k \in 1..Len(largeFiles) |->
                               PathIndex(largeFiles[k].Path) ],
                           bigHigh, bigMedium)
              /\ Len(largeFiles)
                   = SumOver([ k \in 1..Len(big) |-> big[k].Value ],
                             1..Len(big))
              /\ BucketRisks(old, oldHigh, oldMedium)
              /\ DrillDown(outdatedDeps,
                           [ k \in 1..Len(outdatedDeps) |->
                               PathIndex(outdatedDeps[k].Name) ],
                           oldHigh, oldMedium)
              /\ Len(outdatedDeps)
                   = SumOver([ k \in 1..Len(old) |-> old[k].Value ],
                             1..Len(old))

\* A file of the Medium bucket before one of the High bucket: the High
\* risk comes first, the drill-down list keeps the input order.
C23_Witness ==
    /\ pc = "risksDetected"
    /\ Len(files) = 2
    /\ files[1].Size = largeFileCriticalBytes - 1
    /\ files[2].Size = largeFileCriticalBytes
    /\ Len(risks) = 2
    /\ risks[1].Severity = SeverityHigh
    /\ risks[1].Value = 1
    /\ risks[2].Severity = SeverityMedium
    /\ Len(largeFiles) = 2
    /\ largeFiles[1].Severity = SeverityMedium
    /\ largeFiles[2].Severity = SeverityHigh

(***************************************************************************)
(* MetricRisk specification: detectMetricRisks applied to Metrics whose    *)
(* values lie below, on and above the thresholds of its rules.             *)
(***************************************************************************)
\* A float64 metric given in tenths.
Tenths(n) == Ratio(n, 10)

\* Tenths around a threshold given as a whole number.
Around(threshold) ==
    { Tenths(10 * threshold - 1), Tenths(10 * threshold),
      Tenths(10 * threshold + 1) }

\* <<bug-fix PRs, other PRs>> of the merged pull requests: a bug-fix ratio
\* of 49, 50 and 51 percent.
BugFixShares == { <<49, 51>>, <<1, 1>>, <<51, 49>> }

MetricInputs ==
    { [ zeroMetrics EXCEPT
          !.AvgLeadTime = lead,
          !.AvgReviewWaitTime = wait,
          !.AvgPRSize = size,
          !.BugFixPRCount = share[1],
          !.OtherPRCount = share[2],
          !.BugFixRatio = Ratio(100 * share[1], share[1] + share[2]),
          !.DeployFrequency = <<2, 1>>,
          !.DeployFreqRating = doraDeployFreqRating(<<2, 1>>),
          !.ChangeFailureRate = fail,
          !.ChangeFailRating = doraChangeFailRating(fail),
          !.MTTR = recovery,
          !.MTTRRating = doraMTTRRating(recovery) ] :
        lead \in Around(7), wait \in Around(48),
        size \in { prSizeThresholdLines - 1, prSizeThresholdLines,
                   prSizeThresholdLines + 1 },
        share \in BugFixShares, fail \in Around(30),
        recovery \in Around(24) }

InitMetricRisk ==
    /\ pc = "detectMetricRisks"
    /\ IdleScore
    /\ IdleLookup
    /\ IdleMetrics
    /\ period = [ From |-> 0, To |-> 0 ]
    /\ allIssues = <<>>
    /\ releases = <<>>
    /\ deployFreq = <<0, 1>>
    /\ deployRating = ""
    /\ cfr = <<0, 1>>
    /\ cfrRating = ""
    /\ repo = noRepository
    /\ commits = <<>>
    /\ contributors = <<>>
    /\ files = <<>>
    /\ dependencies = <<>>
    /\ closedPRs = <<>>
    /\ openPRs = <<>>
    /\ openIssues = <<>>
    /\ prevCommits = <<>>
    /\ prevIssues = <<>>
    /\ prDetails = <<>>
    /\ largeFiles = <<>>
    /\ outdatedDeps = <<>>
    /\ metrics \in MetricInputs
    /\ result = <<>>
    /\ err = <<>>
    /\ calls = <<>>
    /\ now = 0
    /\ run = 0
    /\ lastResult = <<>>
    /\ lastErr = <<>>
    /\ handled = <<>>

\* metricRisks := s.detectMetricRisks(metrics)
DetectMetricRisks ==
    /\ pc = "detectMetricRisks"
    /\ risks' = risks \o detectMetricRisks(metrics)
    /\ pc' = "metricRisksDetected"
    /\ UNCHANGED <<varsDetectFixed, largeFiles, outdatedDeps>>

NextMetricRisk == DetectMetricRisks

SpecMetricRisk == InitMetricRisk /\ [][NextMetricRisk]_vars

\* The number of risks of one type in the list.
RiskCount(t) == Len(RisksOfType(t))

\* x, a pair <<numerator, denominator>>, is more than the whole number n.
MoreThan(x, n) == x[1] > n * x[2]

(***************************************************************************)
(* C24: detectMetricRisks emits at most one risk per metric rule, each on  *)
(* a strict comparison: slow lead time iff the average lead time is more   *)
(* than 7 days, slow review iff the average review wait is more than 48    *)
(* hours, large PR iff the average PR size is more than 500, high bug-fix  *)
(* ratio iff the ratio is more than 50, high change-failure iff the rate   *)
(* is more than 30, slow recovery iff the MTTR is more than 24 hours; a    *)
(* value equal to its threshold raises no risk; the change-failure risk is *)
(* High and every other metric risk is Medium.                             *)
(***************************************************************************)
C24_StrictMetricRules ==
    pc = "metricRisksDetected"
        => /\ RiskCount(RiskTypeSlowLeadTime)
                = (IF MoreThan(metrics.AvgLeadTime, 7) THEN 1 ELSE 0)
           /\ RiskCount(RiskTypeSlowReview)
                = (IF MoreThan(metrics.AvgReviewWaitTime, 48) THEN 1 ELSE 0)
           /\ RiskCount(RiskTypeLargePR)
                = (IF metrics.AvgPRSize > 500 THEN 1 ELSE 0)
           /\ RiskCount(RiskTypeBugFixHigh)
                = (IF MoreThan(metrics.BugFixRatio, 50) THEN 1 ELSE 0)
           /\ RiskCount(RiskTypeHighChangeFailure)
                = (IF MoreThan(metrics.ChangeFailureRate, 30) THEN 1 ELSE 0)
           /\ RiskCount(RiskTypeSlowRecovery)
                = (IF MoreThan(metrics.MTTR, 24) THEN 1 ELSE 0)
           /\ RiskCount(RiskTypeLowIssueClose) <= 1
           /\ RiskCount(RiskTypeLowDeployFreq) <= 1
           /\ RiskCount(RiskTypeLowFeatureInvestment) <= 1
           /\ \A i \in 1..Len(risks) :
                risks[i].Severity
                  = IF risks[i].Type = RiskTypeHighChangeFailure
                    THEN SeverityHigh ELSE SeverityMedium

\* Every one of the six values is equal to its threshold but the change
\* failure rate, which is above it: the one risk of the six rules is High.
C24_Witness ==
    /\ pc = "metricRisksDetected"
    /\ metrics.AvgLeadTime = leadTimeThresholdDays
    /\ metrics.AvgReviewWaitTime = reviewWaitThresholdHours
    /\ metrics.AvgPRSize = prSizeThresholdLines
    /\ metrics.BugFixRatio = bugFixRatioThresholdPct
    /\ metrics.MTTR = mttrThresholdHours
    /\ metrics.ChangeFailureRate = Tenths(301)
    /\ RiskCount(RiskTypeHighChangeFailure) = 1
    /\ RisksOfType(RiskTypeHighChangeFailure)[1].Severity = SeverityHigh
    /\ RiskCount(RiskTypeLowFeatureInvestment) = 1
    /\ Len(risks) = 2

(***************************************************************************)
(* AbsentData specification: calculateMetrics and detectMetricRisks, as    *)
(* Analyze calls them, over inputs in which the data of a metric is        *)
(* absent or present.                                                      *)
(***************************************************************************)
AbsentPeriod == NewDateRange(PeriodFrom, PeriodFrom + 720)

\* No closed pull request, unmerged ones only, and merged ones of which
\* none or all are features.
AbsentPRInputs ==
    { <<>>,
      << PullRequest(1, BranchChore, Noon, <<>>) >>,
      << PullRequest(1, BranchFeature, Noon, <<>>),
         PullRequest(2, BranchFixCapital, Noon, <<Noon + 40>>) >>,
      << PullRequest(1, BranchFeature, Noon, <<Noon + 40>>) >> }

\* No issue, an issue created before the period, an open issue of the
\* period, and a bug of the period closed after two days.
AbsentIssueInputs ==
    { <<>>,
      << Issue(PeriodFrom - 30, <<LabelDocs>>) >>,
      << Issue(Noon, <<LabelDocs>>) >>,
      << ClosedIssue(Noon, <<LabelBugCapital>>, Noon + 48) >> }

\* No release, a release before the period, one and two in the period.
AbsentReleaseInputs ==
    { <<>>, << Release(PeriodFrom - 30) >>, << Release(Noon) >>,
      Repeat(Release(Noon), 2) }

AbsentCommitInputs ==
    { <<>>, << CommitAt(Noon, MessageRevert, <<"a.go">>) >> }

InitAbsentData ==
    /\ pc = "CalculateMetrics"
    /\ IdleScore
    /\ IdleLookup
    /\ IdleMetrics
    /\ period = AbsentPeriod
    /\ allIssues \in AbsentIssueInputs
    /\ releases \in AbsentReleaseInputs
    /\ commits \in AbsentCommitInputs
    /\ deployFreq = <<0, 1>>
    /\ deployRating = ""
    /\ cfr = <<0, 1>>
    /\ cfrRating = ""
    /\ repo = noRepository
    /\ contributors = <<>>
    /\ closedPRs \in AbsentPRInputs
    /\ openPRs = <<>>
    /\ openIssues = <<>>
    /\ files = <<>>
    /\ dependencies = <<>>
    /\ prevCommits = <<>>
    /\ prevIssues = <<>>
    /\ prDetails = <<>>
    /\ largeFiles = <<>>
    /\ outdatedDeps = <<>>
    /\ metrics = zeroMetrics
    /\ result = <<>>
    /\ err = <<>>
    /\ calls = <<>>
    /\ now = 0
    /\ run = 0
    /\ lastResult = <<>>
    /\ lastErr = <<>>
    /\ handled = <<>>

NextAbsentData == CalculateMetrics

SpecAbsentData == InitAbsentData /\ [][NextAbsentData]_vars

\* calculateMetrics and detectMetricRisks have run.
MetricRisksDone == pc = "CalculateScores"

NoIssueCreatedInPeriod ==
    \A i \in 1..Len(allIssues) :
        allIssues[i].CreatedAt < period.From
          \/ allIssues[i].CreatedAt > period.To

NoPRMerged == \A i \in 1..Len(closedPRs) : closedPRs[i].MergedAt = <<>>

(***************************************************************************)
(* C27: a metric whose data is absent never raises a risk: no              *)
(* low-deploy-frequency risk when the deploy frequency rating is "N/A" or  *)
(* the frequency is 0, no high-change-failure risk when the change failure *)
(* rating is "N/A", no slow-recovery risk when the MTTR rating is "N/A",   *)
(* no low-issue-close risk when no issue was created in the period, and no *)
(* low-feature-investment risk when no PR was merged.                      *)
(***************************************************************************)
C27_AbsentDataNoRisk ==
    MetricRisksDone
        => /\ (metrics.DeployFreqRating = "N/A"
                 \/ metrics.DeployFrequency[1] = 0)
                => RiskCount(RiskTypeLowDeployFreq) = 0
           /\ metrics.ChangeFailRating = "N/A"
                => RiskCount(RiskTypeHighChangeFailure) = 0
           /\ metrics.MTTRRating = "N/A"
                => RiskCount(RiskTypeSlowRecovery) = 0
           /\ NoIssueCreatedInPeriod
                => RiskCount(RiskTypeLowIssueClose) = 0
           /\ NoPRMerged => RiskCount(RiskTypeLowFeatureInvestment) = 0

\* Closed pull requests of which none is merged, an issue older than the
\* period, a release older than the period and a revert commit: every
\* metric lacks its data and no risk is raised.
C27_Witness ==
    /\ MetricRisksDone
    /\ Len(closedPRs) = 1
    /\ NoPRMerged
    /\ Len(allIssues) = 1
    /\ NoIssueCreatedInPeriod
    /\ Len(releases) = 1
    /\ metrics.DeployFrequency[1] = 0
    /\ metrics.ChangeFailRating = "N/A"
    /\ metrics.MTTRRating = "N/A"
    /\ Len(commits) = 1
    /\ risks = <<>>

\* The pull request numbers of the calls of one operation, in call order.
CallNumbers(op) ==
    LET made == SelectSeq(calls, LAMBDA c : c.Op = op)
    IN [ i \in 1..Len(made) |-> made[i].Arg[1] ]

\* The numbers of the first 20 merged pull requests of the closed list.
FirstMergedNumbers ==
    LET merged == SelectSeq(closedPRs, LAMBDA p : p.MergedAt # <<>>)
        kept == IF Len(merged) < 20 THEN Len(merged) ELSE 20
    IN [ i \in 1..kept |-> merged[i].Number ]

\* Analyze is past buildPRDetails and has not failed.
PastPRDetails ==
    /\ pc \in { "DetectRisks", "CalculateMetrics", "CalculateScores",
                "Assemble", "returned", "handled" }
    /\ err = <<>>

\* Analyze is past calculateMetrics and has not failed.
PastMetrics ==
    /\ pc \in { "CalculateScores", "Assemble", "returned", "handled" }
    /\ err = <<>>

(***************************************************************************)
(* C25: in every run of Analyze at most 20 PR detail fetches and at most   *)
(* 20 review fetches are made, only for merged pull requests, namely the   *)
(* first 20 merged ones in list order; the average review wait and the     *)
(* average PR size are computed from these only.                           *)
(***************************************************************************)
C25_FirstTwentyMerged ==
    /\ Len(CallNumbers("GetPRDetail")) <= 20
    /\ Len(CallNumbers("GetPRReviews")) <= 20
    /\ CallNumbers("GetPRDetail") \in { <<>>, FirstMergedNumbers }
    /\ CallNumbers("GetPRReviews") = CallNumbers("GetPRDetail")
    /\ PastPRDetails
         => /\ CallNumbers("GetPRDetail") = FirstMergedNumbers
            /\ [ i \in 1..Len(prDetails) |-> prDetails[i].Number ]
                 = FirstMergedNumbers
    /\ PastMetrics
         => /\ metrics.AvgPRSize = calcAvgPRSize(prDetails)
            /\ metrics.AvgReviewWaitTime = calcAvgReviewWait(prDetails)

\* A run over a list of 22 merged pull requests: 20 fetches of each kind.
C25_Witness ==
    /\ pc = "returned"
    /\ err = <<>>
    /\ Len(closedPRs) = ManyPRs
    /\ Len(CallNumbers("GetPRDetail")) = 20
    /\ Len(CallNumbers("GetPRReviews")) = 20
    /\ Len(prDetails) = 20

\* The steps of Analyze from the first detector to the return.
DetectorSteps ==
    { "DetectRisks", "CalculateMetrics", "CalculateScores", "Assemble" }

\* The result of a successful run: its Risks are the risks of detectRisks,
\* then those of detectOutdatedDeps, then those of detectMetricRisks on its
\* Metrics, and its scores are those of this list.
ResultFromAllRisks ==
    (pc = "returned" /\ err = <<>>)
        => LET res == result[1]
           IN /\ \E order \in IterationOrders(DOMAIN fileChanges(commits)) :
                   res.Risks
                     = detectRisks(commits, contributors, files, order)[1]
                         \o detectOutdatedDeps(dependencies)[1]
                         \o detectMetricRisks(res.Metrics)
              /\ res.CategoryScores = calculateCategoryScores(res.Risks)
              /\ res.OverallScore
                   = calculateOverallScore(res.CategoryScores)

\* From the first detector on the collaborator is called no more, and the
\* scores are still unset when the metric risks are appended.
NoCallFromDetectors ==
    /\ pc \in DetectorSteps => calls' = calls
    /\ pc \in { "DetectRisks", "CalculateMetrics" }
         => /\ categoryScores' = <<>>
            /\ categoryScores = <<>>

(***************************************************************************)
(* C26: in every successful run of Analyze every collaborator call         *)
(* completes before the first detector runs, the metric-based risk         *)
(* detection runs on the computed Metrics, and the category and overall    *)
(* scores are computed after it over the concatenation of the data-source  *)
(* risks, the outdated-dependency risks and the metric risks, which is     *)
(* exactly the Risks list of the result.                                   *)
(***************************************************************************)
C26_CallsThenDetectorsThenScores ==
    []ResultFromAllRisks /\ [][NoCallFromDetectors]_vars

\* A successful run with risks of the three origins: large files, old
\* dependencies and metric risks, after fetches of PR details.
C26_Witness ==
    /\ pc = "returned"
    /\ err = <<>>
    /\ RiskCount(RiskTypeLargeFile) > 0
    /\ RiskCount(RiskTypeOutdatedDeps) > 0
    /\ \E i \in 1..Len(risks) : risks[i].Target = wholeRepository
    /\ result[1].Risks = risks
    /\ Len(CallNumbers("GetPRDetail")) > 0
    /\ result[1].CategoryScores = categoryScores

\* The fetches whose failure ends Analyze, in the order of their calls.
FatalOrder ==
    << "commits", "contributors", "closedPRs", "openPRs", "allIssues",
       "openIssues", "files", "dependencies" >>

\* The position in FatalOrder of the first fetch that fails, 0 when none
\* of them fails.
firstFatalFailure ==
    IF \E k \in 1..Len(FatalOrder) : FatalOrder[k] \in repo.failing
    THEN CHOOSE k \in 1..Len(FatalOrder) :
           /\ FatalOrder[k] \in repo.failing
           /\ \A j \in 1..(k - 1) : FatalOrder[j] \notin repo.failing
    ELSE 0

\* The operation and the state argument of the call of each fatal fetch.
FatalOps ==
    << <<"GetCommits", "">>, <<"GetContributors", "">>,
       <<"GetPullRequests", "closed">>, <<"GetPullRequests", "open">>,
       <<"GetIssues", "all">>, <<"GetIssues", "open">>, <<"GetFiles", "">>,
       <<"GetDependencies", "">> >>

(***************************************************************************)
(* C30: a failure of the open pull requests fetch, of either               *)
(* current-period issue fetch, of the file-tree fetch or of the dependency *)
(* fetch also aborts: Analyze returns a nil result and the collaborator's  *)
(* error, and issues no further fetch; only the releases fetch, the        *)
(* previous-period fetches and the per-PR detail and review fetches are    *)
(* tolerated.                                                              *)
(***************************************************************************)
C30_OtherFetchesFatal ==
    /\ firstFatalFailure > 3
         => /\ Len(calls) <= firstFatalFailure
            /\ AnalyzeReturned
                 => /\ result = <<>>
                    /\ err = ErrorOf(FatalOrder[firstFatalFailure])
                    /\ Len(calls) = firstFatalFailure
                    /\ calls[Len(calls)].Op = FatalOps[firstFatalFailure][1]
                    /\ calls[Len(calls)].State
                         = FatalOps[firstFatalFailure][2]
    /\ (firstFatalFailure = 0 /\ AnalyzeReturned)
         => /\ result # <<>>
            /\ err = <<>>

\* The file-tree fetch failed after six fetches that succeeded, and the
\* dependency fetch, which would fail too, was not made.
C30_Witness ==
    /\ pc = "returned"
    /\ repo.failing = { "files", "dependencies" }
    /\ Len(calls) = 7
    /\ calls[7].Op = "GetFiles"
    /\ openIssues # <<>>
    /\ result = <<>>
    /\ err = ErrorOf("files")

(***************************************************************************)
(* The scores of a risk list and of its permutations.                      *)
(***************************************************************************)
Elements(s) == { s[i] : i \in 1..Len(s) }

TimesIn(s, x) == Cardinality({ i \in 1..Len(s) : s[i] = x })

\* s without the first occurrence of x.
RemoveOne(s, x) ==
    LET at == CHOOSE i \in 1..Len(s) :
                /\ s[i] = x
                /\ \A j \in 1..(i - 1) : s[j] # x
    IN SubSeq(s, 1, at - 1) \o SubSeq(s, at + 1, Len(s))

\* The lists that hold the elements of s as often as s does.
RECURSIVE Reorderings(_)
Reorderings(s) ==
    IF s = <<>> THEN { <<>> }
    ELSE UNION { { <<x>> \o q : q \in Reorderings(RemoveOne(s, x)) } :
                 x \in Elements(s) }

\* The lists a and b hold the same elements equally often.
SameBag(a, b) ==
    /\ Len(a) = Len(b)
    /\ \A x \in Elements(a) : TimesIn(a, x) = TimesIn(b, x)

(***************************************************************************)
(* Reorder specification: the scoring calls on risk lists of which every   *)
(* order is scored again.                                                  *)
(***************************************************************************)
MaxReordered == 3

\* One type of Velocity and two of Health, of every severity.
ReorderProbes ==
    { NewRisk(t, s, <<>>, 0, 0) :
        t \in { RiskTypeSlowLeadTime, RiskTypeLateNight, RiskTypeOwnership },
        s \in Severities }

\* Every list of up to MaxReordered of them, and the lists that bring a
\* category to the lower clamp.
ReorderInputs ==
    SeqsUpTo(ReorderProbes, MaxReordered)
    \cup { p \o Repeat(r, n) : p \in SeqsUpTo(ReorderProbes, 1),
                               r \in ReorderProbes, n \in 4..MaxRepeat }

InitReorder ==
    /\ IdleLookup
    /\ IdleDora
    /\ IdleAnalyze
    /\ IdleMetrics
    /\ overallScore = zeroScore
    /\ pc = "start"
    /\ risks \in ReorderInputs
    /\ categoryScores = <<>>

NextReorder == CalcCategoryScores \/ CalcOverallScore

SpecReorder == InitReorder /\ [][NextReorder]_vars

\* The largest penalty among the risks of a category, 0 without any.
WorstPenalty(rs, cat) ==
    IF \A i \in IndicesOf(rs, cat) : severityPoints(rs[i].Severity) = 0
    THEN 0
    ELSE CHOOSE p \in penaltyHigh..0 :
           /\ \E i \in IndicesOf(rs, cat) : severityPoints(rs[i].Severity) = p
           /\ \A i \in IndicesOf(rs, cat) : severityPoints(rs[i].Severity) >= p

\* Two different risks of the category share its largest penalty.
TiedWorst(rs, cat) ==
    \E i, j \in IndicesOf(rs, cat) :
        /\ rs[i] # rs[j]
        /\ severityPoints(rs[i].Severity) = WorstPenalty(rs, cat)
        /\ severityPoints(rs[j].Severity) = WorstPenalty(rs, cat)
        /\ WorstPenalty(rs, cat) < 0

(***************************************************************************)
(* C28: for every risk list, the four category scores and the overall      *)
(* score are the same for every permutation of the list; only the order of *)
(* the breakdown lines and the choice among equally penalised worst risks  *)
(* can depend on the order.                                                *)
(***************************************************************************)
C28_ScoresOrderFree ==
    pc = "done"
        => \A q \in Reorderings(risks) :
              LET permuted == calculateCategoryScores(q)
              IN /\ \A cat \in CategorySet :
                       /\ permuted[cat].Score.Value
                            = categoryScores[cat].Score.Value
                       /\ SameBag(permuted[cat].Score.Breakdown,
                                  categoryScores[cat].Score.Breakdown)
                       /\ permuted[cat].Diagnosis
                            # categoryScores[cat].Diagnosis
                            => TiedWorst(risks, cat)
                 /\ calculateOverallScore(permuted) = overallScore

\* Three risks of one category and of three severities: six orders, one
\* score of 70 and an overall score of 92.
C28_Witness ==
    /\ pc = "done"
    /\ Len(risks) = 3
    /\ Cardinality(Reorderings(risks)) = 6
    /\ risks[1].Severity = SeverityLow
    /\ risks[2].Severity = SeverityHigh
    /\ risks[3].Severity = SeverityMedium
    /\ \E cat \in CategorySet :
          /\ IndicesOf(risks, cat) = 1..3
          /\ categoryScores[cat].Score.Value = 70
    /\ overallScore.Value = 92

\* The sum of the Points of the lines of a breakdown.
BreakdownTotal(b) ==
    SumOver([ k \in 1..Len(b) |-> b[k].Points ], 1..Len(b))

(***************************************************************************)
(* C29: each category's breakdown starts with the base line of 100 points  *)
(* followed by one line per risk of that category in input order; Value is *)
(* the sum of the breakdown points clamped to [0,100]; every risk appears  *)
(* in the breakdown of exactly one category, so the four breakdowns hold   *)
(* 4 + (number of risks) lines.                                            *)
(***************************************************************************)
C29_BreakdownLines ==
    Scored
        => /\ \A cat \in CategorySet :
                LET b == categoryScores[cat].Score.Breakdown
                    own == Rising(IndicesOf(risks, cat))
                    total == BreakdownTotal(b)
                IN /\ Len(b) = 1 + Len(own)
                   /\ b[1].Points = 100
                   /\ b[1].Label = "base_score"
                   /\ \A k \in 1..Len(own) :
                         /\ b[k + 1].Label = DisplayName(risks[own[k]].Type)
                         /\ b[k + 1].Points
                              = severityPoints(risks[own[k]].Severity)
                         /\ b[k + 1].Detail = formatRiskDetail(risks[own[k]])
                   /\ categoryScores[cat].Score.Value
                        = IF total < 0 THEN 0
                          ELSE IF total > 100 THEN 100 ELSE total
           /\ \A i \in 1..Len(risks) :
                Cardinality({ cat \in CategorySet :
                                i \in IndicesOf(risks, cat) }) = 1
           /\ SumOver([ cat \in CategorySet |->
                          Len(categoryScores[cat].Score.Breakdown) ],
                      CategorySet)
                = 4 + Len(risks)

\* Eight risks of two categories: the older one first in its breakdown, the
\* seven high ones bring the sum of their breakdown to -5 and the Value to 0.
C29_Witness ==
    /\ pc = "scored"
    /\ Len(risks) = 8
    /\ \E c1, c2 \in CategorySet :
          /\ c1 # c2
          /\ IndicesOf(risks, c1) = {1}
          /\ IndicesOf(risks, c2) = 2..8
          /\ Len(categoryScores[c1].Score.Breakdown) = 2
          /\ Len(categoryScores[c2].Score.Breakdown) = 8
          /\ BreakdownTotal(categoryScores[c2].Score.Breakdown) = -5
          /\ categoryScores[c2].Score.Value = 0

====
